---- MODULE Spec2Model ----
(***************************************************************************)
(* The package-manager daemon of linyaps (PackageManager in                *)
(* libs/linglong/src/linglong/package_manager/package_manager.cpp): the    *)
(* layer store, the repository lock, the live-container inventory, the     *)
(* task registry and the mutation plans (Install, InstallFromFile,         *)
(* Uninstall, Update, deferred uninstall).                                 *)
(***************************************************************************)
EXTENDS Integers, Sequences, FiniteSets, TLC

\* ------------------------------------------------------------------ bounds
MaxVer == 2     \* versions 1..MaxVer of the application exist in the remote
MaxTasks == 2   \* tasks registered during one run of the daemon
NetCap == 2     \* |#export - #unexport| per reference that is tracked

\* ---------------------------------------------------------------- universe
Modules == {"binary", "develop"}
ModuleOrder == <<"binary", "develop">>

NoRef == [id |-> "none", ver |-> 0]
AppRefs == [id : {"app"}, ver : 1..MaxVer]
RuntimeRef == [id |-> "rt", ver |-> 1]
BaseRef == [id |-> "base", ver |-> 1]
\* a newer base in the remote: no application declares it, Update of the base installs it
LatestBaseRef == [id |-> "base", ver |-> 2]
Refs == AppRefs \cup {RuntimeRef, BaseRef, LatestBaseRef}

States == {"Queued", "Processing", "PartCompleted", "Succeed", "Failed", "Canceled"}
SubStates == {"Unknown", "PreAction", "InstallApplication", "InstallBase", "InstallRuntime",
              "Uninstall", "PostAction", "PackageManagerDone", "AllDone"}

\* one injected failure of an external collaborator per handler run
NoFault == [op |-> "none", module |-> "none"]
Fault(o, m) == [op |-> o, module |-> m]

\* the metadata (info.json) of a package: kind and declared dependencies
PackageInfo(r) ==
  IF r.id = "app" THEN [kind |-> "app", runtime |-> RuntimeRef, base |-> BaseRef]
  ELSE IF r.id = "rt" THEN [kind |-> "runtime", runtime |-> NoRef, base |-> BaseRef]
  ELSE [kind |-> "base", runtime |-> NoRef, base |-> NoRef]

\* the modules the remote repository offers for a reference
RemoteModules(r) == IF r \in AppRefs THEN Modules ELSE IF r \in Refs THEN {"binary"} ELSE {}

\* a set of modules as the vector the store returns it
RECURSIVE FilterSeq(_, _)
FilterSeq(s, S) ==
  IF s = <<>> THEN <<>>
  ELSE (IF Head(s) \in S THEN <<Head(s)>> ELSE <<>>) \o FilterSeq(Tail(s), S)

SeqToSet(s) == {s[i] : i \in 1..Len(s)}

\* ------------------------------------------------------------- layer store
\* repo.layers[r][m] : "absent", "present" or "deleted" (LayerItem with the deleted flag)
\* repo.exported     : references whose integration artifacts are published
\* repo.cache        : references that have a generated cache directory
\* repo.net[r]       : export_reference(r) calls minus unexport_reference(r) calls
EmptyRepo ==
  [layers |-> [r \in Refs |-> [m \in Modules |-> "absent"]],
   exported |-> {},
   cache |-> {},
   net |-> [r \in AppRefs |-> 0]]

\* the store's state as a client sees it
External(R) == [layers |-> R.layers, exported |-> R.exported, cache |-> R.cache]

getModuleList(R, r) == FilterSeq(ModuleOrder, {m \in Modules : R.layers[r][m] # "absent"})

getLayerItem(R, r) == r \in Refs /\ R.layers[r]["binary"] # "absent"

getLayerDir(R, r, m) == r \in Refs /\ R.layers[r][m] # "absent"

listLocalDeleted(R, r) == FilterSeq(ModuleOrder, {m \in Modules : R.layers[r][m] = "deleted"})

\* resolve_reference, local: the newest local reference of id (of version v when v # 0)
\* that has a LayerItem whose deleted flag is not set
LocalCandidates(R, id, v) ==
  {r \in Refs : /\ r.id = id
                /\ (v = 0 \/ r.ver = v)
                /\ \E m \in Modules : R.layers[r][m] = "present"}

clearReferenceLocal(R, id, v) ==
  LET C == LocalCandidates(R, id, v)
  IN IF C = {} THEN NoRef ELSE CHOOSE r \in C : \A q \in C : q.ver <= r.ver

\* resolve_reference, remote: the newest remote reference of id (of version v when v # 0)
clearReferenceRemote(id, v) ==
  LET C == {r \in Refs : r.id = id /\ (v = 0 \/ r.ver = v)}
  IN IF C = {} THEN NoRef ELSE CHOOSE r \in C : \A q \in C : q.ver <= r.ver

\* resolve_reference with fallbackToRemote
clearReferenceFallback(R, id, v) ==
  IF clearReferenceLocal(R, id, v) # NoRef THEN clearReferenceLocal(R, id, v)
  ELSE clearReferenceRemote(id, v)

getRemoteModuleList(r, wanted) == FilterSeq(wanted, RemoteModules(r))

RepoPull(R, r, m, fail) ==
  IF fail \/ m \notin RemoteModules(r) THEN [ok |-> FALSE, repo |-> R]
  ELSE [ok |-> TRUE, repo |-> [R EXCEPT !.layers[r][m] = "present"]]

RepoImport(R, r, m, fail) ==
  IF fail THEN [ok |-> FALSE, repo |-> R]
  ELSE [ok |-> TRUE, repo |-> [R EXCEPT !.layers[r][m] = "present"]]

RepoRemove(R, r, m, fail) ==
  IF fail \/ R.layers[r][m] = "absent" THEN [ok |-> FALSE, repo |-> R]
  ELSE [ok |-> TRUE, repo |-> [R EXCEPT !.layers[r][m] = "absent"]]

RepoMarkDeleted(R, r, deleted, m, fail) ==
  IF fail \/ R.layers[r][m] = "absent" THEN [ok |-> FALSE, repo |-> R]
  ELSE [ok |-> TRUE,
        repo |-> [R EXCEPT !.layers[r][m] = IF deleted THEN "deleted" ELSE "present"]]

RepoExport(R, r) ==
  IF r \in AppRefs
  THEN [R EXCEPT !.exported = @ \cup {r}, !.net[r] = @ + 1]
  ELSE R

RepoUnexport(R, r) ==
  IF r \in AppRefs
  THEN [R EXCEPT !.exported = @ \ {r}, !.net[r] = @ - 1]
  ELSE R

\* prepareLayerDir: the runtime and the base of r resolve locally
DepsPresent(R, r) ==
  LET info == PackageInfo(r)
  IN /\ (info.runtime # NoRef
           => clearReferenceLocal(R, info.runtime.id, info.runtime.ver) # NoRef)
     /\ (info.base # NoRef => clearReferenceLocal(R, info.base.id, info.base.ver) # NoRef)

generateCacheRepo(R, r, fail) ==
  IF ~getLayerItem(R, r) THEN [ok |-> FALSE, repo |-> R]
  ELSE IF fail \/ ~DepsPresent(R, r)
       THEN [ok |-> FALSE, repo |-> [R EXCEPT !.cache = @ \ {r}]]
       ELSE [ok |-> TRUE, repo |-> [R EXCEPT !.cache = @ \cup {r}]]

removeCacheRepo(R, r) ==
  IF ~getLayerItem(R, r) THEN R ELSE [R EXCEPT !.cache = @ \ {r}]

\* ------------------------------------------------------------ task object
\* a variant of isTaskDone that takes only AllDone for a finished task
isTaskDoneOnlyAllDone(subState) == subState = "AllDone"

isTaskDone(subState) == subState = "AllDone" \/ subState = "PackageManagerDone"

TerminalStates == {"Succeed", "Failed", "Canceled"}

\* a handler's context: the store, the task it reports to, the lock, and what it did
\* (touched: a pull/import/remove/mark_deleted/export/unexport was issued;
\*  unguarded: one of them was issued while the repository lock was not held;
\*  merged: merge_modules was called;
\*  gap: an old reference was unexported while its replacement was not exported;
\*  exportedUncached: export_reference was called for a reference that had no cache)
Ctx(R, T, L) ==
  [repo |-> R, task |-> T, lock |-> L, touched |-> FALSE, unguarded |-> FALSE,
   merged |-> FALSE, gap |-> FALSE, exportedUncached |-> FALSE]

\* the handler issues a store operation
Touch(c) == [c EXCEPT !.touched = TRUE, !.unguarded = @ \/ ~c.lock.held]

updateState(c, s) ==
  IF isTaskDone(c.task.subState) THEN c
  ELSE IF s \in TerminalStates
       THEN [c EXCEPT !.task.state = s, !.task.subState = "AllDone"]
       ELSE [c EXCEPT !.task.state = s]

updateSubState(c, ss) ==
  IF isTaskDone(c.task.subState) THEN c ELSE [c EXCEPT !.task.subState = ss]

setSubState(c, ss) == [c EXCEPT !.task.subState = ss]

reportError(c) == updateState(c, "Failed")

TemporaryTask == [state |-> "Queued", subState |-> "Unknown"]

\* -------------------------------------------------------- repository lock
Unlocked == [fd |-> -1, held |-> FALSE]

lockRepo(L, granted) ==
  IF granted THEN [ok |-> TRUE, lock |-> [fd |-> 1, held |-> TRUE]]
  ELSE [ok |-> FALSE, lock |-> [fd |-> 1, held |-> L.held]]

unlockRepo(L) == IF L.fd = -1 THEN L ELSE [fd |-> -1, held |-> FALSE]

\* getAllRunningContainers: root is the state of /run/linglong ("present", "absent" or
\* "unreadable"), files the state files below it (named by a pid, holding the state of
\* a container, NoRef when the file does not parse), procs the pids that have a /proc
\* entry. An error of the directory iterator, whatever its cause, is returned.
getAllRunningContainers(root, files, procs) ==
  IF root # "present" THEN [ok |-> FALSE, result |-> {}]
  ELSE IF \E f \in files : f.pid \in procs /\ f.state = NoRef
       THEN [ok |-> FALSE, result |-> {}]
       ELSE [ok |-> TRUE, result |-> {f.state : f \in {g \in files : g.pid \in procs}}]

\* a variant of isRefBusy that does not read the inventory: no reference is busy
isRefBusyWithoutInventory(c, ref, fault, running) == [ok |-> TRUE, busy |-> FALSE, c |-> c]

\* is_reference_busy: takes the lock, reads the inventory, releases the lock
isRefBusy(c, ref, fault, running) ==
  LET l == lockRepo(c.lock, fault.op # "lock")
  IN IF ~l.ok THEN [ok |-> FALSE, busy |-> FALSE, c |-> [c EXCEPT !.lock = l.lock]]
     ELSE [ok |-> fault.op # "inventory",
           busy |-> fault.op # "inventory" /\ ref \in running,
           c |-> [c EXCEPT !.lock = unlockRepo(l.lock)]]

\* ------------------------------------------- store operations of a handler
pull(c, r, m, fail) ==
  LET res == RepoPull(c.repo, r, m, fail)
      c1 == Touch(c)
  IN IF res.ok THEN [c1 EXCEPT !.repo = res.repo] ELSE reportError(c1)

exportReference(c, r) ==
  [Touch(c) EXCEPT !.repo = RepoExport(c.repo, r),
                   !.exportedUncached = @ \/ (r \in AppRefs /\ r \notin c.repo.cache)]

unexportReference(c, r) == [Touch(c) EXCEPT !.repo = RepoUnexport(c.repo, r)]

mergeModules(c) == [c EXCEPT !.merged = TRUE]

\* a variant of removeCache that leaves the cache directory in place
removeCacheKeepingDirectory(c, r) == c

removeCache(c, r) == [c EXCEPT !.repo = removeCacheRepo(c.repo, r)]

generateCache(c, r, fail) ==
  LET res == generateCacheRepo(c.repo, r, fail)
  IN [ok |-> res.ok, c |-> [c EXCEPT !.repo = res.repo]]

\* ------------------------------------------------- utils::Transaction
\* a journal is a sequence of inverse operations; an uncommitted journal is played
\* in reverse when the transaction goes out of scope
Inverse(o, r, ms) == [op |-> o, ref |-> r, modules |-> ms]

RECURSIVE RollBack(_, _)
RECURSIVE UninstallRefLoop(_, _, _, _, _, _)

\* UninstallRef: removes the modules one by one, each with a re-pull inverse
UninstallRefLoop(c, ref, modules, i, J, fault) ==
  IF i > Len(modules) THEN c
  ELSE LET m == modules[i]
           c1 == IF m = "binary" \/ m = "runtime" THEN removeCache(c, ref) ELSE c
           res == RepoRemove(c1.repo, ref, m, fault = Fault("remove", m))
           c2 == Touch(c1)
       IN IF ~res.ok
          THEN LET c3 == updateState(c2, "Failed")
               IN [c3 EXCEPT !.repo = RollBack(c3.repo, J)]
          ELSE UninstallRefLoop([c2 EXCEPT !.repo = res.repo], ref, modules, i + 1,
                                Append(J, Inverse("pull", ref, <<m>>)), fault)

UninstallRef(c, ref, modules, fault) ==
  IF isTaskDone(c.task.subState) THEN c
  ELSE UninstallRefLoop(updateSubState(c, "Uninstall"), ref, modules, 1, <<>>, fault)

\* one inverse operation, as the rollback closures of the handlers perform it
Undo(R, e) ==
  CASE e.op = "remove" -> RepoRemove(R, e.ref, e.modules[1], FALSE).repo
    [] e.op = "markDeleted" -> RepoMarkDeleted(R, e.ref, TRUE, e.modules[1], FALSE).repo
    [] e.op = "unmarkDeleted" -> RepoMarkDeleted(R, e.ref, FALSE, e.modules[1], FALSE).repo
    [] e.op = "export" -> RepoExport(R, e.ref)
    [] e.op = "pull" ->
         LET p == RepoPull(R, e.ref, e.modules[1], FALSE).repo
         IN IF e.modules[1] = "binary" \/ e.modules[1] = "runtime"
            THEN generateCacheRepo(p, e.ref, FALSE).repo
            ELSE p
    [] e.op = "UninstallRef" ->
         UninstallRef(Ctx(R, TemporaryTask, Unlocked), e.ref, e.modules, NoFault).repo
    [] OTHER -> R

RollBack(R, J) ==
  IF J = <<>> THEN R
  ELSE RollBack(Undo(R, J[Len(J)]), SubSeq(J, 1, Len(J) - 1))

\* leave a scope with an uncommitted journal
Abort(c, J) == [c EXCEPT !.repo = RollBack(c.repo, J)]

\* ---------------------------------------------------------- dependency pull
importLayerDir(c, r, m, fail) ==
  LET res == RepoImport(c.repo, r, m, fail)
      c1 == Touch(c)
  IN IF res.ok THEN [c1 EXCEPT !.repo = res.repo] ELSE reportError(c1)

\* a step that returns when the task is done, and otherwise commits
AbortIfDone(c, J) == IF isTaskDone(c.task.subState) THEN Abort(c, J) ELSE c

\* a variant of the runtime half that registers no inverse for the pulled runtime
PulledRuntimeWithoutRollBack(c2, runtime, module) ==
  [c |-> c2, J |-> <<>>, returned |-> isTaskDone(c2.task.subState)]

\* the runtime half of pullDependency: the context, the journal, and whether it returned
PulledRuntime(c2, runtime, module) ==
  IF isTaskDone(c2.task.subState) THEN [c |-> c2, J |-> <<>>, returned |-> TRUE]
  ELSE [c |-> c2, J |-> <<Inverse("remove", runtime, <<module>>)>>, returned |-> FALSE]

PullRuntimeLayer(c1, runtime, module, fault) ==
  IF getLayerDir(c1.repo, runtime, "binary") THEN [c |-> c1, J |-> <<>>, returned |-> FALSE]
  ELSE IF isTaskDone(c1.task.subState) THEN [c |-> c1, J |-> <<>>, returned |-> TRUE]
  ELSE PulledRuntime(pull(c1, runtime, module, fault.op = "pullRuntime"), runtime, module)

PullRuntimeResolved(c, runtime, module, fault) ==
  IF runtime = NoRef THEN [c |-> updateState(c, "Failed"), J |-> <<>>, returned |-> TRUE]
  ELSE PullRuntimeLayer(updateSubState(c, "InstallRuntime"), runtime, module, fault)

PullRuntime(c, info, module, fault) ==
  IF info.runtime = NoRef THEN [c |-> c, J |-> <<>>, returned |-> FALSE]
  ELSE PullRuntimeResolved(c, IF fault.op = "resolveRuntime" THEN NoRef
                              ELSE clearReferenceFallback(c.repo, info.runtime.id,
                                                          info.runtime.ver),
                           module, fault)

\* the base half of pullDependency
PullBaseLayer(c1, J, base, module, fault) ==
  IF getLayerDir(c1.repo, base, module) THEN c1
  ELSE IF isTaskDone(c1.task.subState) THEN Abort(c1, J)
  ELSE AbortIfDone(pull(c1, base, module, fault.op = "pullBase"), J)

PullBaseResolved(rt, base, module, fault) ==
  IF base = NoRef THEN Abort(updateState(rt.c, "Failed"), rt.J)
  ELSE PullBaseLayer(updateSubState(rt.c, "InstallBase"), rt.J, base, module, fault)

PullBase(rt, info, module, fault) ==
  IF rt.returned THEN rt.c
  ELSE PullBaseResolved(rt, IF fault.op = "resolveBase" THEN NoRef
                            ELSE clearReferenceFallback(rt.c.repo, info.base.id,
                                                        info.base.ver),
                        module, fault)

pullDependency(c, r, module, fault) ==
  IF PackageInfo(r).kind # "app" \/ (module # "binary" /\ module # "runtime") THEN c
  ELSE PullBase(PullRuntime(c, PackageInfo(r), module, fault), PackageInfo(r), module, fault)

\* ------------------------------------------------------------- InstallRef
Equivalent(module, deleted) ==
  \/ (module = "runtime" /\ deleted = "binary")
  \/ (module = "binary" /\ deleted = "runtime")
  \/ module = deleted

\* vector::erase of the first element find_if returns
RECURSIVE EraseFirst(_, _)
EraseFirst(mods, d) ==
  IF mods = <<>> THEN <<>>
  ELSE IF Equivalent(Head(mods), d) THEN Tail(mods)
  ELSE <<Head(mods)>> \o EraseFirst(Tail(mods), d)

\* the loop over the deleted LayerItems of ref: clear the flag instead of pulling
RECURSIVE ReviveLoop(_, _, _, _, _, _, _)
ReviveLoop(c, ref, deletedList, i, mods, J, fault) ==
  IF i > Len(deletedList) THEN [c |-> c, mods |-> mods, J |-> J, returned |-> FALSE]
  ELSE IF isTaskDone(c.task.subState)
       THEN [c |-> Abort(c, J), mods |-> mods, J |-> <<>>, returned |-> TRUE]
  ELSE LET d == deletedList[i]
           res == RepoMarkDeleted(c.repo, ref, FALSE, d, fault = Fault("unmarkDeleted", d))
           c1 == Touch(c)
           c2 == IF res.ok THEN [c1 EXCEPT !.repo = res.repo] ELSE updateState(c1, "Failed")
       IN IF \A k \in 1..Len(mods) : ~Equivalent(mods[k], d)
          THEN ReviveLoop(c, ref, deletedList, i + 1, mods, J, fault)
          ELSE ReviveLoop(c2, ref, deletedList, i + 1, EraseFirst(mods, d),
                          Append(J, Inverse("markDeleted", ref, <<d>>)), fault)

\* the loop over the modules that are left: pull each, then its dependencies
RECURSIVE PullLoop(_, _, _, _, _, _)
RECURSIVE Pulled(_, _, _, _, _, _)
PullLoop(c, ref, mods, i, J, fault) ==
  IF i > Len(mods) THEN c
  ELSE IF isTaskDone(c.task.subState) THEN Abort(c, J)
  ELSE Pulled(pull(c, ref, mods[i], fault = Fault("pull", mods[i])), ref, mods, i, J, fault)

\* after the pull of mods[i]: J is the journal before the pull's inverse is added
Pulled(c1, ref, mods, i, J, fault) ==
  IF isTaskDone(c1.task.subState) THEN Abort(c1, J)
  ELSE IF mods[i] # "binary" /\ mods[i] # "runtime"
       THEN PullLoop(c1, ref, mods, i + 1, Append(J, Inverse("remove", ref, <<mods[i]>>)),
                     fault)
       ELSE IF ~getLayerDir(c1.repo, ref, "binary")
            THEN Abort(updateState(c1, "Failed"),
                       Append(J, Inverse("remove", ref, <<mods[i]>>)))
            ELSE PullLoop(pullDependency(c1, ref, "binary", fault), ref, mods, i + 1,
                          Append(J, Inverse("remove", ref, <<mods[i]>>)), fault)

InstallRefPull(rv, ref, fault) ==
  IF rv.returned THEN rv.c ELSE PullLoop(rv.c, ref, rv.mods, 1, rv.J, fault)

InstallRef(c, ref, modules, fault) ==
  InstallRefPull(ReviveLoop(updateSubState(updateSubState(c, "PreAction"),
                                           "InstallApplication"),
                            ref, listLocalDeleted(c.repo, ref), 1, modules, <<>>, fault),
                 ref, fault)

\* ------------------------------------------------------ removeAfterInstall
RECURSIVE MarkLoop(_, _, _, _, _, _)
MarkLoop(c, oldRef, modules, i, J, fault) ==
  IF i > Len(modules) THEN [ok |-> TRUE, c |-> c]
  ELSE LET m == modules[i]
           res == RepoMarkDeleted(c.repo, oldRef, TRUE, m, fault = Fault("markDeleted", m))
           c1 == Touch(c)
       IN IF ~res.ok THEN [ok |-> FALSE, c |-> Abort(c1, J)]
          ELSE MarkLoop([c1 EXCEPT !.repo = res.repo], oldRef, modules, i + 1,
                        Append(J, Inverse("unmarkDeleted", oldRef, <<m>>)), fault)

\* a variant of RemoveLoop that leaves the store as it is when a removal fails
RECURSIVE RemoveLoopWithoutRollBack(_, _, _, _, _, _)
RemoveLoopWithoutRollBack(c, oldRef, modules, i, J, fault) ==
  IF i > Len(modules) THEN [ok |-> TRUE, c |-> c]
  ELSE LET m == modules[i]
           c1 == IF m = "binary" \/ m = "runtime" THEN removeCache(c, oldRef) ELSE c
           res == RepoRemove(c1.repo, oldRef, m, fault = Fault("removeOld", m))
           c2 == Touch(c1)
       IN IF ~res.ok THEN [ok |-> FALSE, c |-> c2]
          ELSE RemoveLoopWithoutRollBack([c2 EXCEPT !.repo = res.repo], oldRef, modules,
                                         i + 1, J, fault)

RECURSIVE RemoveLoop(_, _, _, _, _, _)
RemoveLoop(c, oldRef, modules, i, J, fault) ==
  IF i > Len(modules) THEN [ok |-> TRUE, c |-> c]
  ELSE LET m == modules[i]
           c1 == IF m = "binary" \/ m = "runtime" THEN removeCache(c, oldRef) ELSE c
           res == RepoRemove(c1.repo, oldRef, m, fault = Fault("removeOld", m))
           c2 == Touch(c1)
       IN IF ~res.ok THEN [ok |-> FALSE, c |-> Abort(c2, J)]
          ELSE RemoveLoop([c2 EXCEPT !.repo = res.repo], oldRef, modules, i + 1,
                          Append(J, Inverse("pull", oldRef, <<m>>)), fault)

\* after the old modules are removed: merge and publish the new reference
ExportNew(rm, newRef) ==
  IF ~rm.ok THEN rm ELSE [ok |-> TRUE, c |-> exportReference(mergeModules(rm.c), newRef)]

\* the old reference is unexported: from here on it is invisible to the launch paths
HideOld(c, oldRef, newRef) ==
  [unexportReference(c, oldRef) EXCEPT !.gap = @ \/ newRef \notin c.repo.exported]

\* a busy old reference is only marked deleted; an idle one is unexported and removed
RemoveOrDefer(needDelay, oldRef, newRef, modules, fault) ==
  IF ~needDelay.ok THEN [ok |-> FALSE, c |-> needDelay.c]
  ELSE IF needDelay.busy THEN MarkLoop(needDelay.c, oldRef, modules, 1, <<>>, fault)
  ELSE ExportNew(RemoveLoop(HideOld(needDelay.c, oldRef, newRef), oldRef, modules, 1,
                            <<Inverse("export", oldRef, <<>>)>>, fault),
                 newRef)

removeAfterInstall(c, oldRef, newRef, modules, fault, running) ==
  RemoveOrDefer(isRefBusy(c, oldRef, fault, running), oldRef, newRef, modules, fault)

\* --------------------------------------------------------------- the plans
\* Install(PackageTask&, newRef, oldRef, modules), after it has set Processing
InstallCached(gen, J) ==
  IF ~gen.ok THEN Abort(updateState(gen.c, "Failed"), J) ELSE updateState(gen.c, "Succeed")

InstallReplaced(rm, newRef, J, fault) ==
  IF ~rm.ok THEN Abort(updateState(rm.c, "Failed"), J)
  ELSE InstallCached(generateCache(rm.c, newRef, fault.op = "cache"), J)

InstallPost(c2, newRef, oldRef, modules, J, fault, running) ==
  IF ~getLayerItem(c2.repo, newRef) THEN Abort(reportError(c2), J)
  ELSE IF PackageInfo(newRef).kind # "app" THEN updateState(c2, "Succeed")
  ELSE IF oldRef # NoRef
       THEN InstallReplaced(removeAfterInstall(c2, oldRef, newRef, modules, fault, running),
                            newRef, J, fault)
       ELSE InstallCached(generateCache(exportReference(c2, newRef), newRef,
                                        fault.op = "cache"), J)

InstallInstalled(c1, newRef, oldRef, modules, J, fault, running) ==
  IF isTaskDone(c1.task.subState) THEN Abort(c1, J)
  ELSE InstallPost(mergeModules(updateSubState(c1, "PostAction")), newRef, oldRef, modules,
                   J, fault, running)

InstallPlan(c, newRef, oldRef, modules, fault, running) ==
  IF fault.op = "remoteModules" THEN reportError(c)
  ELSE IF getRemoteModuleList(newRef, modules) = <<>> THEN updateState(c, "Failed")
  ELSE InstallInstalled(InstallRef(c, newRef, getRemoteModuleList(newRef, modules), fault),
                        newRef, oldRef, modules,
                        <<Inverse("UninstallRef", newRef,
                                  getRemoteModuleList(newRef, modules))>>,
                        fault, running)

\* Uninstall(PackageTask&, ref, module), after it has set Processing
Uninstalled(c2, J) ==
  IF isTaskDone(c2.task.subState) THEN Abort(c2, J)
  ELSE mergeModules(updateState(c2, "Succeed"))

\* a variant of UninstallPlan that leaves the reference exported
UninstallPlanWithoutUnexport(c, ref, module, fault) ==
  Uninstalled(UninstallRef(updateSubState(c, "PreAction"), ref,
                           IF module = "binary" \/ module = "runtime"
                           THEN getModuleList(c.repo, ref) ELSE <<module>>,
                           fault),
              <<>>)

UninstallPlan(c, ref, module, fault) ==
  IF module = "binary" \/ module = "runtime"
  THEN Uninstalled(UninstallRef(unexportReference(updateSubState(c, "PreAction"), ref), ref,
                                getModuleList(c.repo, ref), fault),
                   <<Inverse("export", ref, <<>>)>>)
  ELSE Uninstalled(UninstallRef(updateSubState(c, "PreAction"), ref, <<module>>, fault),
                   <<>>)

\* Update(PackageTask&, ref, newRef), after it has set Processing
UpdateCached(gen) ==
  IF ~gen.ok THEN updateState(gen.c, "Failed") ELSE mergeModules(gen.c)

UpdateReplaced(rm, newRef, fault) ==
  IF ~rm.ok THEN rm.c ELSE UpdateCached(generateCache(rm.c, newRef, fault.op = "cache"))

UpdatePost(c3, ref, newRef, modules, fault, running) ==
  IF ~getLayerItem(c3.repo, newRef) THEN c3
  ELSE IF PackageInfo(newRef).kind # "app" THEN mergeModules(c3)
  ELSE UpdateReplaced(removeAfterInstall(c3, ref, newRef, modules, fault, running), newRef,
                      fault)

\* a busy old reference ends the task's reporting at PackageManagerDone
UpdateBusy(busy, ref, newRef, modules, fault, running) ==
  UpdatePost(IF busy.ok /\ busy.busy THEN setSubState(busy.c, "PackageManagerDone")
             ELSE busy.c,
             ref, newRef, modules, fault, running)

UpdateInstalled(c1, ref, newRef, modules, fault, running) ==
  IF isTaskDone(c1.task.subState) THEN c1
  ELSE UpdateBusy(isRefBusy(updateState(c1, "PartCompleted"), ref, fault, running), ref,
                  newRef, modules, fault, running)

UpdatePlan(c, ref, newRef, fault, running) ==
  IF fault.op = "remoteModules" THEN reportError(c)
  ELSE IF getRemoteModuleList(newRef, getModuleList(c.repo, ref)) = <<>>
       THEN updateState(c, "Failed")
       ELSE UpdateInstalled(InstallRef(c, newRef,
                                       getRemoteModuleList(newRef,
                                                           getModuleList(c.repo, ref)),
                                       fault),
                            ref, newRef, getModuleList(c.repo, ref), fault, running)

\* the closure of an Update task: one pair after the other until the task is done
RECURSIVE UpdateLoop(_, _, _, _, _)
UpdateLoop(c, pairs, k, fault, running) ==
  IF k > Len(pairs) THEN c
  ELSE IF isTaskDone(c.task.subState) THEN c
  ELSE UpdateLoop(UpdatePlan(updateState(c, "Processing"), pairs[k].old, pairs[k].new,
                             fault, running),
                  pairs, k + 1, fault, running)

\* the installer of installFromLayer, after it has set Processing and PreAction
LayerCached(gen, newRef, localRef, module, fault, running) ==
  IF ~gen.ok THEN reportError(gen.c)
  ELSE IF localRef = NoRef THEN exportReference(gen.c, newRef)
  ELSE removeAfterInstall(gen.c, localRef, newRef, <<module>>, fault, running).c

LayerSucceed(c3, newRef, localRef, module, fault, running) ==
  IF module # "binary" /\ module # "runtime" THEN c3
  ELSE IF PackageInfo(newRef).kind # "app" THEN c3
  ELSE IF localRef # NoRef /\ module \notin SeqToSet(getModuleList(c3.repo, localRef))
       THEN c3
       ELSE LayerCached(generateCache(c3, newRef, fault.op = "cache"), newRef, localRef,
                        module, fault, running)

LayerImported(c2, newRef, localRef, module, fault, running) ==
  IF isTaskDone(c2.task.subState) THEN c2
  ELSE LayerSucceed(updateState(c2, "Succeed"), newRef, localRef, module, fault, running)

LayerPulled(c1, newRef, localRef, module, fault, running) ==
  IF isTaskDone(c1.task.subState) THEN c1
  ELSE LayerImported(importLayerDir(c1, newRef, module, fault.op = "import"), newRef,
                     localRef, module, fault, running)

LayerPlan(c, newRef, localRef, module, fault, running) ==
  IF fault.op = "unpack" THEN reportError(c)
  ELSE LayerPulled(pullDependency(c, newRef, module, fault), newRef, localRef, module, fault,
                   running)

\* the layers of an archive, the application layer first
UabLayers(newAppRef) == <<newAppRef, RuntimeRef, BaseRef>>

\* a non-app layer is skipped when a local reference of the same version has it
UabSkip(R, ref, module) ==
  LET localRef == clearReferenceLocal(R, ref.id, ref.ver)
  IN /\ PackageInfo(ref).kind # "app"
     /\ localRef # NoRef
     /\ getLayerDir(R, localRef, module)
     /\ ref.ver = localRef.ver

RECURSIVE UabImportLoop(_, _, _, _, _)

\* a variant of the import loop that registers no inverse for the layer it imports
UabImportLoopWithoutRollBack(c, layers, i, J, fault) ==
  IF i > Len(layers) THEN [c |-> c, J |-> J, returned |-> FALSE]
  ELSE IF isTaskDone(c.task.subState) THEN [c |-> Abort(c, J), J |-> <<>>, returned |-> TRUE]
  ELSE LET ref == layers[i]
           c1 == importLayerDir(c, ref, "binary", fault = Fault("import", ref.id))
       IN IF fault = Fault("layerDir", ref.id)
          THEN [c |-> Abort(updateState(c, "Failed"), J), J |-> <<>>, returned |-> TRUE]
          ELSE IF UabSkip(c.repo, ref, "binary") THEN UabImportLoop(c, layers, i + 1, J, fault)
          ELSE IF isTaskDone(c1.task.subState)
               THEN [c |-> Abort(c1, J), J |-> <<>>, returned |-> TRUE]
               ELSE UabImportLoop(c1, layers, i + 1, J, fault)

UabImportLoop(c, layers, i, J, fault) ==
  IF i > Len(layers) THEN [c |-> c, J |-> J, returned |-> FALSE]
  ELSE IF isTaskDone(c.task.subState) THEN [c |-> Abort(c, J), J |-> <<>>, returned |-> TRUE]
  ELSE LET ref == layers[i]
           c1 == importLayerDir(c, ref, "binary", fault = Fault("import", ref.id))
       IN IF fault = Fault("layerDir", ref.id)
          THEN [c |-> Abort(updateState(c, "Failed"), J), J |-> <<>>, returned |-> TRUE]
          ELSE IF UabSkip(c.repo, ref, "binary") THEN UabImportLoop(c, layers, i + 1, J, fault)
          ELSE IF isTaskDone(c1.task.subState)
               THEN [c |-> Abort(c1, J), J |-> <<>>, returned |-> TRUE]
               ELSE UabImportLoop(c1, layers, i + 1,
                                  Append(J, Inverse("remove", ref, <<"binary">>)), fault)

\* the installer of installFromUAB, after it has set Processing and PreAction
UabCached(gen, J) ==
  IF ~gen.ok THEN Abort(updateState(gen.c, "Failed"), J) ELSE updateState(gen.c, "Succeed")

UabImported(imp, newAppRef, oldAppRef, fault, running) ==
  IF imp.returned THEN imp.c
  ELSE IF oldAppRef # NoRef
       THEN updateState(removeAfterInstall(imp.c, oldAppRef, newAppRef,
                                           getModuleList(imp.c.repo, oldAppRef), fault,
                                           running).c,
                        "Succeed")
       ELSE UabCached(generateCache(exportReference(mergeModules(imp.c), newAppRef),
                                    newAppRef, fault.op = "cache"),
                      imp.J)

UabPlan(c, newAppRef, oldAppRef, fault, running) ==
  IF fault.op = "mount" THEN reportError(c)
  ELSE IF fault.op = "layersDir" THEN updateState(c, "Failed")
  ELSE UabImported(UabImportLoop(c, UabLayers(newAppRef), 1, <<>>, fault), newAppRef,
                   oldAppRef, fault, running)

\* ---------------------------------------------------------- legacy service
\* PackageManagerImpl (src/service/impl/package_manager_impl.cpp): a synchronous
\* Install against a remote index, a local record database and a data directory
MaxImplVer == 3   \* versions 1..MaxImplVer of the application in the remote index

hostArch == "x86_64"
ImplApps == [appId : {"app"}, version : 1..MaxImplVer, arch : {hostArch}]
ImplRuntime == [appId |-> "rt", version |-> 1, arch |-> hostArch]

\* impl.records : install records; impl.pulled : packages whose data were downloaded
EmptyImpl ==
  [records |-> {}, pulled |-> {},
   reply |-> [code |-> "none", appId |-> "none", version |-> 0]]

\* the remote index: the packages a query for (pkgName, pkgVer) matches; a name that
\* is a fragment of an id matches the id, version 0 stands for no version
queryRemote(pkgName, pkgVer) ==
  IF pkgName \in {"app", "ap"} THEN {a \in ImplApps : pkgVer = 0 \/ a.version = pkgVer}
  ELSE IF pkgName = "rt" THEN {a \in {ImplRuntime} : pkgVer = 0 \/ a.version = pkgVer}
  ELSE {}

\* a variant of getLatestApp that takes the first package of the list
getLatestAppFirst(appList) == appList[1]

RECURSIVE getLatestAppLoop(_, _, _)
getLatestAppLoop(appList, i, latestApp) ==
  IF i > Len(appList) THEN latestApp
  ELSE getLatestAppLoop(appList, i + 1,
                        IF hostArch = appList[i].arch
                             /\ appList[i].version > latestApp.version
                        THEN appList[i]
                        ELSE latestApp)

getLatestApp(appList) ==
  IF Len(appList) = 1 THEN appList[1] ELSE getLatestAppLoop(appList, 1, appList[1])

getAppInstalledStatus(L, appId, version) ==
  \E a \in L.records : a.appId = appId /\ a.version = version

downloadAppData(L, a, fail) ==
  IF fail THEN [ok |-> FALSE, impl |-> L]
  ELSE [ok |-> TRUE, impl |-> [L EXCEPT !.pulled = @ \cup {a}]]

insertAppRecord(L, a) == [L EXCEPT !.records = @ \cup {a}]

\* the failures an Install of the legacy service can meet
ImplFaults ==
  {"none", "query", "load", "runtimeFormat", "queryRuntime", "downloadRuntime", "download"}

ImplDownloaded(dl, a) ==
  IF ~dl.ok THEN dl ELSE [ok |-> TRUE, impl |-> insertAppRecord(dl.impl, a)]

installRuntime(L, runtime, fault) ==
  IF fault = "queryRuntime" THEN [ok |-> FALSE, impl |-> L]
  ELSE IF Cardinality(queryRemote(runtime.appId, runtime.version)) # 1
       THEN [ok |-> FALSE, impl |-> L]
       ELSE ImplDownloaded(downloadAppData(L, runtime, fault = "downloadRuntime"), runtime)

checkAppRuntime(L, runtime, fault) ==
  IF fault = "runtimeFormat" THEN [ok |-> FALSE, impl |-> L]
  ELSE IF getAppInstalledStatus(L, runtime.appId, runtime.version)
       THEN [ok |-> TRUE, impl |-> L]
       ELSE installRuntime(L, runtime, fault)

ImplReply(L, code, appId, version) ==
  [L EXCEPT !.reply = [code |-> code, appId |-> appId, version |-> version]]

\* Install of the legacy service, from the package the index names as the latest
ImplInstallLatest(L, appInfo, fault) ==
  LET rt == checkAppRuntime(L, ImplRuntime, fault)
      dl == downloadAppData(rt.impl, appInfo, fault = "download")
  IN IF ~rt.ok
     THEN ImplReply(rt.impl, "install_runtime_failed", appInfo.appId, appInfo.version)
     ELSE IF ~dl.ok
          THEN ImplReply(dl.impl, "load_pkg_data_failed", appInfo.appId, appInfo.version)
          ELSE ImplReply(insertAppRecord(dl.impl, appInfo), "pkg_install_success",
                         appInfo.appId, appInfo.version)

ImplInstallFound(L, appId, version, appList, appInfo, fault) ==
  IF getAppInstalledStatus(L, appInfo.appId, appInfo.version)
  THEN ImplReply(L, "pkg_already_installed", appInfo.appId, appInfo.version)
  ELSE IF Len(appList) > 1 /\ appId # appInfo.appId
       THEN ImplReply(L, "pkg_install_failed", appId, version)
       ELSE ImplInstallLatest(L, appInfo, fault)

\* ------------------------------------------------------------------- state
VARIABLES
  repo,       \* the layer store
  lock,       \* lockFd and whether this daemon holds the advisory lock
  running,    \* the live-container inventory: references with a running container
  tasks,      \* the task registry, in order of registration (index = object path)
  handlers,   \* tasks whose ReplyReceived handler is connected
  taskAdded,  \* number of TaskAdded signals emitted
  reply,      \* the reply of the last client call
  prune,      \* the prune queue: jobs queued, and what the jobs that ran did
  impl        \* the legacy service (PackageManagerImpl): records, data, last reply

vars == <<repo, lock, running, tasks, handlers, taskAdded, reply, prune, impl>>

\* the store of a host on which version 1 of the application is installed
InstalledRepo ==
  [EmptyRepo EXCEPT !.layers[[id |-> "app", ver |-> 1]]["binary"] = "present",
                    !.layers[RuntimeRef]["binary"] = "present",
                    !.layers[BaseRef]["binary"] = "present",
                    !.exported = {[id |-> "app", ver |-> 1]},
                    !.cache = {[id |-> "app", ver |-> 1]},
                    !.net[[id |-> "app", ver |-> 1]] = 1]

NoReply == [op |-> "none", code |-> 0, type |-> "display", task |-> 0]

Init ==
  /\ repo \in {EmptyRepo, InstalledRepo}
  /\ lock = Unlocked
  /\ running = {}
  /\ tasks = <<>>
  /\ handlers = {}
  /\ taskAdded = 0
  /\ reply = NoReply
  /\ prune = [queued |-> 0, unguarded |-> FALSE]
  /\ impl = EmptyImpl

\* ------------------------------------------------------------ task registry
NewTask(kind, newRef, oldRef, module, ask) ==
  [kind |-> kind, new |-> newRef, old |-> oldRef, module |-> module, ask |-> ask,
   pc |-> "queued", state |-> "Queued", subState |-> "Unknown", answer |-> "none",
   touched |-> FALSE, unguarded |-> FALSE, merged |-> FALSE, gap |-> FALSE,
   exportedUncached |-> FALSE, pairs |-> <<>>]

\* a call that fails before a task exists: the reply carries the error
Refuse(op, type) ==
  /\ reply' = [op |-> op, code |-> -1, type |-> type, task |-> 0]
  /\ UNCHANGED <<repo, lock, running, tasks, handlers, taskAdded>>

\* a variant of addNewTask that emits no TaskAdded
addNewTaskWithoutSignal(op, task, registered) ==
  IF ~registered THEN Refuse(op, "display")
  ELSE /\ tasks' = Append(tasks, task)
       /\ reply' = [op |-> op, code |-> 0, type |-> "display", task |-> Len(tasks) + 1]
       /\ UNCHANGED <<repo, lock, running, handlers, taskAdded>>

\* tasks.addNewTask, TaskAdded, updateState(Queued) and the reply with code 0
addNewTask(op, task, registered) ==
  IF ~registered THEN Refuse(op, "display")
  ELSE /\ tasks' = Append(tasks, task)
       /\ taskAdded' = taskAdded + 1
       /\ reply' = [op |-> op, code |-> 0, type |-> "display", task |-> Len(tasks) + 1]
       /\ UNCHANGED <<repo, lock, running, handlers>>

\* a variant of Classify that lets a downgrade through without force
ClassifyIgnoringForce(newRef, localRef, force) ==
  IF localRef = NoRef THEN "Install"
  ELSE IF newRef.ver = localRef.ver THEN "AlreadyInstalled"
  ELSE IF newRef.ver > localRef.ver THEN "Upgrade"
  ELSE "Install"

\* the classification of an install against the installed reference of the same id
Classify(newRef, localRef, force) ==
  IF localRef = NoRef THEN "Install"
  ELSE IF newRef.ver = localRef.ver THEN "AlreadyInstalled"
  ELSE IF newRef.ver > localRef.ver THEN "Upgrade"
  ELSE IF force THEN "Install"
  ELSE "DowngradeRequiresForce"

\* ------------------------------------------------------------- client calls
\* Install(parameters): v = 0 stands for a package without a version
Install(v, curModule, force, skipInteraction, registered) ==
  LET localRef == clearReferenceLocal(repo, "app", 0)
      remoteRef == clearReferenceRemote("app", v)
      msgType == Classify(remoteRef, localRef, force)
  IN /\ Len(tasks) < MaxTasks
     /\ IF curModule # "binary"
        THEN IF v # 0 THEN Refuse("Install", "display")
             ELSE addNewTask("Install", NewTask("module", NoRef, NoRef, curModule, FALSE),
                             registered)
        ELSE IF v # 0 /\ clearReferenceLocal(repo, "app", v) # NoRef
             THEN Refuse("Install", "display")
        ELSE IF msgType \in {"AlreadyInstalled", "DowngradeRequiresForce"}
             THEN Refuse("Install", "display")
        ELSE addNewTask("Install",
                        NewTask("install", remoteRef, localRef, curModule,
                                msgType = "Upgrade" /\ ~skipInteraction),
                        registered)

\* installFromLayer / installFromUAB: a file that carries version v of the application
InstallFromFile(fileType, v, force, skipInteraction, registered) ==
  LET packageRef == [id |-> "app", ver |-> v]
      localRef == clearReferenceLocal(repo, "app", 0)
      hasLocal == localRef # NoRef /\ getLayerDir(repo, localRef, "binary")
      msgType == Classify(packageRef, IF hasLocal THEN localRef ELSE NoRef, force)
  IN /\ Len(tasks) < MaxTasks
     /\ IF msgType \in {"AlreadyInstalled", "DowngradeRequiresForce"}
        THEN Refuse("InstallFromFile", "display")
        ELSE addNewTask("InstallFromFile",
                        NewTask(fileType, packageRef, localRef, "binary",
                                msgType = "Upgrade" /\ ~skipInteraction),
                        registered)

\* Uninstall(parameters): the package may be the application, the runtime or the base
Uninstall(id, v, curModule, fault, registered) ==
  LET reference == clearReferenceLocal(repo, id, v)
      runningRef == isRefBusy(Ctx(repo, TemporaryTask, lock), reference, fault, running)
  IN /\ Len(tasks) < MaxTasks
     /\ id # "app" => v = 0 /\ curModule = "binary"
     /\ IF reference = NoRef THEN Refuse("Uninstall", "display")
        ELSE IF ~runningRef.ok
             THEN /\ reply' = [op |-> "Uninstall", code |-> -1, type |-> "display", task |-> 0]
                  /\ lock' = runningRef.c.lock
                  /\ UNCHANGED <<repo, running, tasks, handlers, taskAdded>>
        ELSE IF runningRef.busy
             THEN /\ reply' = [op |-> "Uninstall", code |-> -1, type |-> "notification",
                               task |-> 0]
                  /\ lock' = runningRef.c.lock
                  /\ UNCHANGED <<repo, running, tasks, handlers, taskAdded>>
        ELSE /\ lock' = runningRef.c.lock
             /\ IF ~registered
                THEN /\ reply' = [op |-> "Uninstall", code |-> -1, type |-> "display",
                                  task |-> 0]
                     /\ UNCHANGED <<tasks, taskAdded>>
                ELSE /\ tasks' = Append(tasks, NewTask("uninstall", reference, NoRef,
                                                       curModule, FALSE))
                     /\ taskAdded' = taskAdded + 1
                     /\ reply' = [op |-> "Uninstall", code |-> 0, type |-> "display",
                                  task |-> Len(tasks) + 1]
             /\ UNCHANGED <<repo, running, handlers>>

\* the (installed, newest remote) pair of one package of an Update call
UpgradeOf(id) == [old |-> clearReferenceLocal(repo, id, 0), new |-> clearReferenceRemote(id, 0)]

\* Update(parameters): packages lists the ids in the iteration order of the upgrades map
Update(packages, registered) ==
  /\ Len(tasks) < MaxTasks
  /\ IF \E k \in 1..Len(packages) :
          \/ UpgradeOf(packages[k]).old = NoRef
          \/ ~getLayerItem(repo, UpgradeOf(packages[k]).old)
          \/ UpgradeOf(packages[k]).new.ver <= UpgradeOf(packages[k]).old.ver
     THEN Refuse("Update", "display")
     ELSE addNewTask("Update",
                     [NewTask("update", UpgradeOf(packages[1]).new,
                              UpgradeOf(packages[1]).old, "binary", FALSE)
                        EXCEPT !.pairs = [k \in 1..Len(packages) |-> UpgradeOf(packages[k])]],
                     registered)

\* ---------------------------------------------------------------- the queue
\* the mutation queue is serial: a task's closure is entered when the closures of all
\* tasks registered before it have returned
Dispatchable(i) ==
  /\ i \in 1..Len(tasks)
  /\ \A j \in 1..(i - 1) : tasks[j].pc = "done"

TaskOf(c, t, pc) ==
  [t EXCEPT !.state = c.task.state, !.subState = c.task.subState, !.pc = pc,
            !.touched = t.touched \/ c.touched, !.unguarded = t.unguarded \/ c.unguarded,
            !.merged = t.merged \/ c.merged, !.gap = t.gap \/ c.gap,
            !.exportedUncached = t.exportedUncached \/ c.exportedUncached]

TaskCtx(t) == Ctx(repo, [state |-> t.state, subState |-> t.subState], lock)

\* the closure up to the point where the plan proper starts: the state is Processing
\* (with PreAction for the file installers) unless the task is already done
Enter(t) ==
  LET c0 == TaskCtx(t)
      c1 == updateState(c0, "Processing")
      c2 == IF t.kind \in {"layer", "uab"} THEN updateSubState(c1, "PreAction") ELSE c1
  IN IF isTaskDone(c0.task.subState) THEN TaskOf(c0, t, "done") ELSE TaskOf(c2, t, "plan")

\* the closure of a module install resolves the installed reference first
EnterModule(t) ==
  LET localRef == clearReferenceLocal(repo, "app", 0)
      c0 == TaskCtx(t)
  IN IF localRef = NoRef THEN TaskOf(updateState(c0, "Failed"), t, "done")
     ELSE IF t.module \in SeqToSet(getModuleList(repo, localRef))
          THEN TaskOf(updateState(c0, "Failed"), t, "done")
          ELSE [TaskOf(updateState(c0, "Processing"), t, "plan") EXCEPT !.new = localRef]

\* a variant of Start whose closure never asks: it goes on without RequestInteraction
StartWithoutPrompt(i) ==
  /\ Dispatchable(i)
  /\ tasks[i].pc = "queued"
  /\ tasks' = [tasks EXCEPT ![i] = IF tasks[i].kind = "module"
                                    THEN EnterModule(tasks[i])
                                    ELSE Enter(tasks[i])]
  /\ UNCHANGED <<repo, lock, running, handlers, taskAdded, reply>>

\* the queue enters the closure of task i; an upgrade that needs the user's consent
\* emits RequestInteraction, connects its handler and parks in a nested event loop
Start(i) ==
  /\ Dispatchable(i)
  /\ tasks[i].pc = "queued"
  /\ IF tasks[i].ask
     THEN /\ tasks' = [tasks EXCEPT ![i].pc = "parked"]
          /\ handlers' = handlers \cup {i}
     ELSE /\ tasks' = [tasks EXCEPT ![i] = IF tasks[i].kind = "module"
                                           THEN EnterModule(tasks[i])
                                           ELSE Enter(tasks[i])]
          /\ UNCHANGED handlers
  /\ UNCHANGED <<repo, lock, running, taskAdded, reply>>

\* a variant of Answered whose handler cancels the task whatever the reply's action
AnsweredAlwaysCanceled(t, action) ==
  [Enter(TaskOf(updateState(TaskCtx(t), "Canceled"), t, "parked")) EXCEPT !.answer = action]

\* a variant of Answered whose handler does not look at the reply's action
AnsweredWithoutAction(t, action) ==
  [Enter(TaskOf(TaskCtx(t), t, "parked")) EXCEPT !.answer = action]

\* ReplyInteraction(object_path, replies): ReplyReceived reaches every connected
\* handler; the handler of the parked task records the answer and leaves the loop
Answered(t, action) ==
  LET c0 == TaskCtx(t)
      c1 == IF action # "yes" THEN updateState(c0, "Canceled") ELSE c0
  IN [Enter(TaskOf(c1, t, "parked")) EXCEPT !.answer = action]

ReplyInteraction(object_path, action) ==
  /\ object_path \in 1..Len(tasks)
  /\ \E i \in 1..Len(tasks) :
       /\ tasks[i].pc = "parked"
       /\ tasks' = [tasks EXCEPT ![i] = Answered(tasks[i], action)]
       /\ handlers' = IF tasks[i].kind = "install" THEN handlers ELSE handlers \ {i}
  /\ UNCHANGED <<repo, lock, running, taskAdded, reply>>

\* the plan of task i, with at most one injected failure
Plan(t, fault) ==
  LET c == TaskCtx(t)
  IN CASE t.kind = "install" ->
            InstallPlan(c, t.new, t.old,
                        IF t.old # NoRef THEN getModuleList(repo, t.old) ELSE <<t.module>>,
                        fault, running)
       [] t.kind = "module" -> InstallPlan(c, t.new, NoRef, <<t.module>>, fault, running)
       [] t.kind = "layer" -> LayerPlan(c, t.new, t.old, t.module, fault, running)
       [] t.kind = "uab" -> UabPlan(c, t.new, t.old, fault, running)
       [] t.kind = "uninstall" -> UninstallPlan(c, t.new, t.module, fault)
       [] t.kind = "update" -> UpdateLoop(c, t.pairs, 1, fault, running)

InRange(R) == \A r \in AppRefs : R.net[r] \in -NetCap..NetCap

\* the failures a plan can meet: each names the operation that fails
RepoFaults ==
  {Fault(o, "none") : o \in {"lock", "inventory", "cache"}}
    \cup {Fault(o, m) : o \in {"removeOld", "markDeleted"}, m \in Modules}

DependencyFaults ==
  {Fault(o, "none") : o \in {"resolveRuntime", "resolveBase", "pullRuntime", "pullBase"}}

Faults ==
  {NoFault} \cup RepoFaults \cup DependencyFaults
            \cup {Fault(o, "none") : o \in {"remoteModules", "unpack", "import", "mount",
                                            "layersDir"}}
            \cup {Fault(o, m) : o \in {"pull", "remove", "unmarkDeleted"}, m \in Modules}
            \cup {Fault(o, id) : o \in {"import", "layerDir"}, id \in {"app", "rt", "base"}}

\* the failures the plan of a task of this kind consults
FaultsOf(kind) ==
  CASE kind \in {"install", "module", "update"} ->
         {NoFault, Fault("remoteModules", "none")} \cup RepoFaults \cup DependencyFaults
           \cup {Fault(o, m) : o \in {"pull", "unmarkDeleted"}, m \in Modules}
    [] kind = "layer" ->
         {NoFault, Fault("unpack", "none"), Fault("import", "none")}
           \cup RepoFaults \cup DependencyFaults
    [] kind = "uab" ->
         {NoFault, Fault("mount", "none"), Fault("layersDir", "none")} \cup RepoFaults
           \cup {Fault(o, id) : o \in {"import", "layerDir"}, id \in {"app", "rt", "base"}}
    [] kind = "uninstall" -> {NoFault} \cup {Fault("remove", m) : m \in Modules}

\* the plan of task i has run to its end: c is the handler's final context
Ran(i, c) ==
  /\ InRange(c.repo)
  /\ repo' = c.repo
  /\ lock' = c.lock
  /\ tasks' = [tasks EXCEPT ![i] = TaskOf(c, tasks[i], "done")]
  /\ UNCHANGED <<running, handlers, taskAdded, reply>>

Run(i, fault) ==
  /\ Dispatchable(i)
  /\ tasks[i].pc = "plan"
  /\ fault \in FaultsOf(tasks[i].kind)
  /\ Ran(i, Plan(tasks[i], fault))

\* --------------------------------------------------------- deferred uninstall
\* the iteration orders of the unordered_map of references to uninstall
Orders(S) == {o \in [1..Cardinality(S) -> S] : \A i, j \in 1..Cardinality(S) : i # j => o[i] # o[j]}

RECURSIVE DeferredRemoveLoop(_, _, _, _, _)
DeferredRemoveLoop(c, ref, items, i, fault) ==
  IF i > Len(items) THEN c
  ELSE LET m == items[i]
           c1 == IF m = "binary" \/ m = "runtime" THEN removeCache(c, ref) ELSE c
           res == RepoRemove(c1.repo, ref, m, fault = Fault("remove", m))
       IN DeferredRemoveLoop(IF res.ok THEN [c1 EXCEPT !.repo = res.repo] ELSE c1,
                             ref, items, i + 1, fault)

\* one reference of the deferred uninstall; when no local reference of the id is left,
\* exportReference is handed the value of an empty result: an indeterminate reference
DeferredGroup(c, ref, items, fault, indeterminate) ==
  LET c1 == DeferredRemoveLoop(unexportReference(c, ref), ref, items, 1, fault)
      c2 == mergeModules(c1)
      latestRef == clearReferenceLocal(c2.repo, ref.id, 0)
  IN exportReference(c2, IF latestRef = NoRef THEN indeterminate ELSE latestRef)

RECURSIVE DeferredLoop(_, _, _, _, _, _)
DeferredLoop(c, listed, order, i, fault, indeterminate) ==
  IF i > Len(order) THEN c
  ELSE DeferredLoop(DeferredGroup(c, order[i], listLocalDeleted(listed, order[i]), fault,
                                  indeterminate),
                    listed, order, i + 1, fault, indeterminate)

\* the references with a LayerItem marked deleted, and those of them that are not busy
UninstalledLayers(R) == {r \in Refs : listLocalDeleted(R, r) # <<>>}

\* a variant of Survivors that does not erase the busy references from the work list
SurvivorsWithBusy(R, busy) == UninstalledLayers(R)

Survivors(R, busy) == UninstalledLayers(R) \ busy

\* a failure is injected only where the run consults it
Consulted(fault, indeterminate) ==
  /\ fault.op = "inventory" => UninstalledLayers(repo) # {}
  /\ fault.op = "remove" => Survivors(repo, running) # {}
  /\ indeterminate # NoRef => Survivors(repo, running) # {} /\ fault.op \notin {"lock", "inventory"}

\* the tick with the lock taken: l is the lock as lockRepo left it
DeferredLocked(l, fault, indeterminate) ==
  /\ lock' = unlockRepo(l)
  /\ IF UninstalledLayers(repo) = {} \/ fault.op = "inventory" \/ Survivors(repo, running) = {}
     THEN UNCHANGED repo
     ELSE \E order \in Orders(Survivors(repo, running)) :
            repo' = DeferredLoop(Ctx(repo, TemporaryTask, l), repo, order, 1, fault,
                                 indeterminate).repo
  /\ InRange(repo')
  /\ UNCHANGED <<running, tasks, handlers, taskAdded, reply>>

\* the timer fires: deferredUninstall()
deferredUninstall(fault, indeterminate) ==
  /\ Consulted(fault, indeterminate)
  /\ IF fault.op = "lock"
     THEN /\ lock' = lockRepo(lock, FALSE).lock
          /\ UNCHANGED <<repo, running, tasks, handlers, taskAdded, reply>>
     ELSE DeferredLocked(lockRepo(lock, TRUE).lock, fault, indeterminate)

\* ---------------------------------------------------------------- containers
\* the container runtime starts a container of an installed application
ContainerStart(r) ==
  /\ r \in AppRefs \ running
  /\ repo.layers[r]["binary"] = "present"
  /\ running' = running \cup {r}
  /\ UNCHANGED <<repo, lock, tasks, handlers, taskAdded, reply>>

ContainerExit(r) ==
  /\ r \in running
  /\ running' = running \ {r}
  /\ UNCHANGED <<repo, lock, tasks, handlers, taskAdded, reply>>

\* -------------------------------------------------------------------- prune
MaxPruneJobs == 1   \* jobs waiting on the prune queue

\* list_local as Prune reads it: the binary LayerItems whose deleted flag is not set
listLocal(R) == {r \in Refs : R.layers[r]["binary"] = "present"}

\* the references one installed application adds a count to: a runtime that does not
\* resolve ends the application's iteration before its base is counted
PruneCounted(R, app, fault) ==
  LET info == PackageInfo(app)
      runtimeRef == IF fault.op = "resolveRuntime" THEN NoRef
                    ELSE clearReferenceLocal(R, info.runtime.id, info.runtime.ver)
      baseRef == IF fault.op = "resolveBase" THEN NoRef
                 ELSE clearReferenceLocal(R, info.base.id, info.base.ver)
  IN IF runtimeRef = NoRef THEN {}
     ELSE IF baseRef = NoRef THEN {runtimeRef}
     ELSE {runtimeRef, baseRef}

\* the keys of target: the installed references that are not applications, and the
\* references counted for an installed application
PruneKeys(R, fault) ==
  {r \in listLocal(R) : PackageInfo(r).kind # "app"}
    \cup UNION {PruneCounted(R, app, fault) :
                 app \in {r \in listLocal(R) : PackageInfo(r).kind = "app"}}

\* the keys of target whose count is 0
PruneTargets(R, fault) ==
  PruneKeys(R, fault)
    \ UNION {PruneCounted(R, app, fault) :
              app \in {r \in listLocal(R) : PackageInfo(r).kind = "app"}}

\* the removal of the modules of a reference whose count is 0
RECURSIVE PruneRemoveLoop(_, _, _, _, _)
PruneRemoveLoop(c, ref, modules, i, fault) ==
  IF i > Len(modules) THEN [ok |-> TRUE, c |-> c]
  ELSE LET res == RepoRemove(c.repo, ref, modules[i], fault = Fault("remove", modules[i]))
       IN IF ~res.ok THEN [ok |-> FALSE, c |-> Touch(c)]
          ELSE PruneRemoveLoop([Touch(c) EXCEPT !.repo = res.repo], ref, modules, i + 1, fault)

\* Prune(removed): the first removal that fails ends the pass; merge_modules follows
\* the removals when target is not empty
RECURSIVE PruneLoop(_, _, _, _, _)
PruneLoop(c, order, i, fault, keys) ==
  IF i > Len(order) THEN (IF keys # {} THEN mergeModules(c) ELSE c)
  ELSE LET rm == PruneRemoveLoop(c, order[i], getModuleList(c.repo, order[i]), 1, fault)
       IN IF ~rm.ok THEN rm.c ELSE PruneLoop(rm.c, order, i + 1, fault, keys)

\* the failures a prune pass can meet
PruneFaults ==
  {NoFault, Fault("resolveRuntime", "none"), Fault("resolveBase", "none"),
   Fault("remove", "binary")}

\* Prune(): the job is queued on the prune queue and the call returns its id
Prune ==
  /\ prune.queued < MaxPruneJobs
  /\ prune' = [prune EXCEPT !.queued = @ + 1]
  /\ reply' = [op |-> "Prune", code |-> 0, type |-> "display", task |-> 0]
  /\ UNCHANGED <<repo, lock, running, tasks, handlers, taskAdded, impl>>

\* the prune queue runs the job: Prune(removed) and then PruneFinished
PruneJob(fault) ==
  /\ prune.queued > 0
  /\ \E order \in Orders(PruneTargets(repo, fault)) :
       LET c == PruneLoop(Ctx(repo, TemporaryTask, lock), order, 1, fault,
                          PruneKeys(repo, fault))
       IN /\ repo' = c.repo
          /\ prune' = [queued |-> prune.queued - 1, unguarded |-> prune.unguarded \/ c.unguarded]
  /\ UNCHANGED <<lock, running, tasks, handlers, taskAdded, reply, impl>>

\* ------------------------------------------------------------- specification
\* the failures the Uninstall call and the deferred uninstall can meet
UninstallFaults == {NoFault, Fault("lock", "none"), Fault("inventory", "none")}

TickFaults == UninstallFaults \cup {Fault("remove", m) : m \in Modules}

Next ==
  \/ \E v \in 0..MaxVer, m \in Modules, force, skip, registered \in BOOLEAN :
       Install(v, m, force, skip, registered) /\ UNCHANGED <<prune, impl>>
  \/ \E fileType \in {"layer", "uab"}, v \in 1..MaxVer, force, skip, registered \in BOOLEAN :
       InstallFromFile(fileType, v, force, skip, registered) /\ UNCHANGED <<prune, impl>>
  \/ \E id \in {"app", "rt", "base"}, v \in 0..MaxVer, m \in Modules,
        registered \in BOOLEAN, fault \in UninstallFaults :
       Uninstall(id, v, m, fault, registered) /\ UNCHANGED <<prune, impl>>
  \/ \E registered \in BOOLEAN : Update(<<"app">>, registered) /\ UNCHANGED <<prune, impl>>
  \/ \E i \in 1..Len(tasks) : Start(i) /\ UNCHANGED <<prune, impl>>
  \/ \E p \in 1..Len(tasks), action \in {"yes", "no"} :
       ReplyInteraction(p, action) /\ UNCHANGED <<prune, impl>>
  \/ \E i \in 1..Len(tasks), fault \in Faults : Run(i, fault) /\ UNCHANGED <<prune, impl>>
  \/ \E fault \in TickFaults, indeterminate \in AppRefs \cup {NoRef} :
       deferredUninstall(fault, indeterminate) /\ UNCHANGED <<prune, impl>>
  \/ \E r \in AppRefs : ContainerStart(r) /\ UNCHANGED <<prune, impl>>
  \/ \E r \in AppRefs : ContainerExit(r) /\ UNCHANGED <<prune, impl>>

Spec == Init /\ [][Next]_vars

\* the prune queue beside the installs, the uninstalls and the deferred uninstall that
\* make and strand dependencies
NextPrune ==
  \/ \E v \in 0..MaxVer, registered \in BOOLEAN :
       Install(v, "binary", FALSE, TRUE, registered) /\ UNCHANGED <<prune, impl>>
  \/ \E id \in {"app", "rt", "base"}, registered \in BOOLEAN :
       Uninstall(id, 0, "binary", NoFault, registered) /\ UNCHANGED <<prune, impl>>
  \/ \E i \in 1..Len(tasks) : Start(i) /\ UNCHANGED <<prune, impl>>
  \/ \E i \in 1..Len(tasks), fault \in Faults : Run(i, fault) /\ UNCHANGED <<prune, impl>>
  \/ \E indeterminate \in AppRefs \cup {NoRef} :
       deferredUninstall(NoFault, indeterminate) /\ UNCHANGED <<prune, impl>>
  \/ \E r \in AppRefs : ContainerStart(r) /\ UNCHANGED <<prune, impl>>
  \/ \E r \in AppRefs : ContainerExit(r) /\ UNCHANGED <<prune, impl>>
  \/ Prune
  \/ \E fault \in PruneFaults : PruneJob(fault)

SpecPrune == Init /\ [][NextPrune]_vars

\* the store after a forced downgrade from version 2 to version 1 while version 2 had a
\* running container: version 2 is marked deleted and still exported
DowngradedRepo ==
  [layers |-> [r \in Refs |->
                 [m \in Modules |->
                    IF m # "binary" THEN "absent"
                    ELSE IF r \in {[id |-> "app", ver |-> 1], RuntimeRef, BaseRef}
                         THEN "present"
                    ELSE IF r = [id |-> "app", ver |-> 2] THEN "deleted"
                    ELSE "absent"]],
   exported |-> {[id |-> "app", ver |-> 2]},
   cache |-> {[id |-> "app", ver |-> 1], [id |-> "app", ver |-> 2]},
   net |-> [r \in AppRefs |-> IF r.ver = 2 THEN 1 ELSE 0]]

\* Update calls for the application and the base, on a host with version 1 installed
InitUpdate ==
  /\ \/ repo = InstalledRepo /\ running = {}
     \/ repo = DowngradedRepo /\ running = {[id |-> "app", ver |-> 2]}
  /\ lock = Unlocked
  /\ tasks = <<>>
  /\ handlers = {}
  /\ taskAdded = 0
  /\ reply = NoReply
  /\ prune = [queued |-> 0, unguarded |-> FALSE]
  /\ impl = EmptyImpl

NextUpdate ==
  \/ \E packages \in UNION {Orders(S) : S \in (SUBSET {"app", "base"}) \ {{}}},
        registered \in BOOLEAN :
       Update(packages, registered) /\ UNCHANGED <<prune, impl>>
  \/ \E i \in 1..Len(tasks) : Start(i) /\ UNCHANGED <<prune, impl>>
  \/ \E i \in 1..Len(tasks), fault \in Faults : Run(i, fault) /\ UNCHANGED <<prune, impl>>
  \/ \E indeterminate \in AppRefs \cup {NoRef} :
       deferredUninstall(NoFault, indeterminate) /\ UNCHANGED <<prune, impl>>
  \/ \E r \in AppRefs : ContainerStart(r) /\ UNCHANGED <<prune, impl>>
  \/ \E r \in AppRefs : ContainerExit(r) /\ UNCHANGED <<prune, impl>>

SpecUpdate == InitUpdate /\ [][NextUpdate]_vars

\* PackageManagerImpl::Install(installParamOption): appList is the index's answer
PackageManagerImplInstall(appId, version, appList, fault) ==
  /\ impl' = IF fault = "query" THEN ImplReply(impl, "pkg_install_failed", "none", 0)
             ELSE IF fault = "load" \/ Len(appList) < 1
                  THEN ImplReply(impl, "pkg_install_failed", appId, version)
                  ELSE ImplInstallFound(impl, appId, version, appList,
                                        getLatestApp(appList), fault)
  /\ UNCHANGED <<repo, lock, running, tasks, handlers, taskAdded, reply, prune>>

\* the legacy service alone: Install of an id, a fragment of an id or an unknown
\* id, of any version, with the index answering in any order
InitLegacy ==
  /\ repo = EmptyRepo
  /\ running = {}
  /\ lock = Unlocked
  /\ tasks = <<>>
  /\ handlers = {}
  /\ taskAdded = 0
  /\ reply = NoReply
  /\ prune = [queued |-> 0, unguarded |-> FALSE]
  /\ impl = EmptyImpl

NextLegacy ==
  \E appId \in {"app", "ap", "ghost"}, version \in 0..MaxImplVer, fault \in ImplFaults :
    \E appList \in Orders(queryRemote(appId, version)) :
      PackageManagerImplInstall(appId, version, appList, fault)

SpecLegacy == InitLegacy /\ [][NextLegacy]_vars

\* the worker inside a plan: the first store call of an install or update plan is a
\* pull or an import, which may suspend the worker for a long time; the closures take
\* no repository lock, so nothing keeps the timer from firing meanwhile
Suspend(i) ==
  /\ Dispatchable(i)
  /\ tasks[i].pc = "plan"
  /\ tasks[i].kind # "uninstall"
  /\ tasks' = [tasks EXCEPT ![i].pc = "suspended"]
  /\ UNCHANGED <<repo, lock, running, handlers, taskAdded, reply>>

\* the pull or import returns and the plan runs to its end
Resume(i, fault) ==
  /\ Dispatchable(i)
  /\ tasks[i].pc = "suspended"
  /\ fault \in FaultsOf(tasks[i].kind)
  /\ Ran(i, Plan(tasks[i], fault))

NextSuspend ==
  \/ \E v \in 0..MaxVer, m \in Modules :
       Install(v, m, FALSE, TRUE, TRUE) /\ UNCHANGED <<prune, impl>>
  \/ \E i \in 1..Len(tasks) : Start(i) /\ UNCHANGED <<prune, impl>>
  \/ \E i \in 1..Len(tasks) : Suspend(i) /\ UNCHANGED <<prune, impl>>
  \/ \E i \in 1..Len(tasks), fault \in Faults : Resume(i, fault) /\ UNCHANGED <<prune, impl>>
  \/ \E i \in 1..Len(tasks), fault \in Faults : Run(i, fault) /\ UNCHANGED <<prune, impl>>
  \/ deferredUninstall(NoFault, NoRef) /\ UNCHANGED <<prune, impl>>
  \/ \E r \in AppRefs : ContainerStart(r) /\ UNCHANGED <<prune, impl>>
  \/ \E r \in AppRefs : ContainerExit(r) /\ UNCHANGED <<prune, impl>>

SpecSuspend == Init /\ [][NextSuspend]_vars

TypeOK ==
  /\ repo.exported \subseteq AppRefs
  /\ repo.cache \subseteq Refs
  /\ running \subseteq AppRefs
  /\ lock.fd \in {-1, 1}
  /\ Len(tasks) <= MaxTasks
  /\ taskAdded \in 0..MaxTasks
  /\ \A i \in 1..Len(tasks) : tasks[i].state \in States /\ tasks[i].subState \in SubStates

\* ===================================================================== claims
\* C1 (as stated): at most one task is in state Processing at a time, and a task has
\* started its plan only if every task registered before it is in a terminal state
\* (Succeed, Failed or Canceled).
C1_SerialUntilTerminal ==
  /\ Cardinality({i \in 1..Len(tasks) : tasks[i].state = "Processing"}) <= 1
  /\ \A i, j \in 1..Len(tasks) :
       j < i /\ tasks[i].pc \in {"plan", "done"} => tasks[j].state \in TerminalStates

\* C2 (as stated): no task issues a store operation while the repository lock is not
\* held by the daemon.
C2_PlansHoldLock == \A i \in 1..Len(tasks) : ~tasks[i].unguarded

\* the LayerItems with their deleted flags, and the exported references
StoreState(R) == [layers |-> R.layers, exported |-> R.exported]

\* C3 (as stated): when the plan of a remote Install ends Failed, whatever the failure
\* that was injected, the LayerItems, their deleted flags and the exported references
\* are those of the state in which the plan started.
C3_FailedInstallRestoresStore ==
  [][\A i \in 1..Len(tasks) :
       (/\ tasks[i].kind = "install"
        /\ tasks[i].pc = "plan"
        /\ tasks'[i].pc = "done"
        /\ tasks'[i].state = "Failed") => StoreState(repo') = StoreState(repo)]_vars

\* C4 (as stated): in every reachable state every exported reference has a LayerItem.
C4_ExportedHasLayerItem ==
  \A r \in repo.exported : \E m \in Modules : repo.layers[r][m] # "absent"

\* C5 (as stated): when an install task (remote, layer file or archive) for an
\* application reference ends Succeed, export_reference has been called for that
\* reference exactly once more than unexport_reference.
C5_SucceedExportsOnceMore ==
  [][\A i \in 1..Len(tasks) :
       (/\ tasks[i].kind \in {"install", "layer", "uab"}
        /\ tasks[i].pc = "plan"
        /\ tasks'[i].pc = "done"
        /\ tasks'[i].state = "Succeed") => repo'.net[tasks[i].new] = 1]_vars

\* C6 (as stated, for the exported references that have a LayerItem): when no plan is
\* running, an exported reference is the highest-version local reference of its id
\* whose deleted flag is not set.
C6_ExportedIsLatest ==
  (\A i \in 1..Len(tasks) : tasks[i].pc # "plan")
    => \A r \in repo.exported :
         getLayerItem(repo, r) => r = clearReferenceLocal(repo, r.id, 0)

\* the references marked deleted that have a running container
BusyDeleted == {r \in running : listLocalDeleted(repo, r) # <<>>}

\* C7: a deferred-uninstall tick, whatever failure it meets, makes no
\* unexport_reference call for a busy reference that is marked deleted, and leaves its
\* export, its LayerItems and its cache as they are.
C7_TickSparesBusy ==
  [][(/\ BusyDeleted # {}
      /\ \E fault \in TickFaults, indeterminate \in AppRefs \cup {NoRef} :
           deferredUninstall(fault, indeterminate))
       => \A r \in BusyDeleted :
            /\ repo'.net[r] >= repo.net[r]
            /\ (r \in repo.exported => r \in repo'.exported)
            /\ repo'.layers[r] = repo.layers[r]
            /\ (r \in repo.cache => r \in repo'.cache)]_vars

\* C7 witness: a busy reference marked deleted, still exported and cached, while no
\* plan runs; the tick taken in this state has got past the lock and the listing and
\* has dropped the reference from its work list.
C7_Witness ==
  /\ \E r \in BusyDeleted : r \in repo.exported /\ r \in repo.cache
  /\ \A i \in 1..Len(tasks) : tasks[i].pc = "done"
  /\ UninstalledLayers(repo) # {}
  /\ Survivors(repo, running) = {}

\* C8: a task whose prompt was answered with anything but "yes" is Canceled, its
\* closure has returned, and its worker has issued no store operation and no
\* merge_modules; the step that delivers the answer leaves the store as it is.
C8_RefusedUpgradeCanceled ==
  /\ [](\A i \in 1..Len(tasks) :
          tasks[i].answer \notin {"none", "yes"}
            => /\ tasks[i].state = "Canceled"
               /\ tasks[i].pc = "done"
               /\ ~tasks[i].touched
               /\ ~tasks[i].merged)
  /\ [][\A i \in 1..Len(tasks) :
          tasks[i].pc = "parked" /\ tasks'[i].answer \notin {"none", "yes"}
            => repo' = repo]_vars

\* C8 witness: the prompt of a layer-file upgrade was answered "no"
C8_Witness ==
  \E i \in 1..Len(tasks) :
    /\ tasks[i].kind = "layer"
    /\ tasks[i].ask
    /\ tasks[i].answer = "no"
    /\ tasks[i].state = "Canceled"

\* C9: an Uninstall call whose reference resolves locally and has a running container
\* replies with a non-zero code, registers no task, emits no TaskAdded and leaves
\* the LayerItems, the exports and the caches as they are.
C9_BusyUninstallRefused ==
  [][\A v \in {u \in 0..MaxVer : clearReferenceLocal(repo, "app", u) \in running} :
       \A m \in Modules, fault \in UninstallFaults, registered \in BOOLEAN :
         Uninstall("app", v, m, fault, registered)
           => /\ reply'.op = "Uninstall"
              /\ reply'.code # 0
              /\ tasks' = tasks
              /\ taskAdded' = taskAdded
              /\ External(repo') = External(repo)]_vars

\* C9 witness: the reply of an Uninstall that found its reference busy
C9_Witness ==
  /\ reply.op = "Uninstall"
  /\ reply.code = -1
  /\ reply.type = "notification"
  /\ clearReferenceLocal(repo, "app", 0) \in running
  /\ tasks = <<>>

\* --------------------------------------------- Install followed by Uninstall
\* the context of a task whose closure the queue has just entered
Fresh(R, L) == updateState(Ctx(R, TemporaryTask, L), "Processing")

\* the modules a binary Install of a reference asks for, as the closure computes them
InstallModules(R, oldRef) == IF oldRef # NoRef THEN getModuleList(R, oldRef) ELSE <<"binary">>

\* Install of ref on the store R, against the local reference the call resolves;
\* no container runs
InstallOf(R, ref, fault) ==
  InstallPlan(Fresh(R, Unlocked), ref, clearReferenceLocal(R, ref.id, 0),
              InstallModules(R, clearReferenceLocal(R, ref.id, 0)), fault, {})

\* Uninstall(ref, binary) run right after the Install whose final context is c1
ThenUninstall(c1, ref, fault) == UninstallPlan(Fresh(c1.repo, c1.lock), ref, "binary", fault)

NotInstalled(R, ref) == \A m \in Modules : R.layers[ref][m] = "absent"

\* the LayerItems of R after the dependencies of an application have been pulled
WithDependencies(R) ==
  [r \in Refs |->
     IF r \in {RuntimeRef, BaseRef} /\ R.layers[r]["binary"] = "absent"
     THEN [R.layers[r] EXCEPT !["binary"] = "present"]
     ELSE R.layers[r]]

\* c2 is the final context of the Uninstall, R the store before the Install
Restored(R, c2) == c2.task.state = "Succeed" => External(c2.repo) = External(R)

RestoredUpToDependencies(R, ref, c2) ==
  c2.task.state = "Succeed"
    => /\ c2.repo.layers = WithDependencies(R)
       /\ c2.repo.exported = R.exported \ {ref}
       /\ c2.repo.cache = R.cache \ {ref}

\* c1 is the final context of the Install
InverseAfter(R, ref, c1) ==
  c1.task.state = "Succeed"
    => \A f2 \in FaultsOf("uninstall") : Restored(R, ThenUninstall(c1, ref, f2))

InverseUpToDependenciesAfter(R, ref, c1) ==
  c1.task.state = "Succeed"
    => \A f2 \in FaultsOf("uninstall") :
         RestoredUpToDependencies(R, ref, ThenUninstall(c1, ref, f2))

C11_SucceedHasMerged ==
  \A i \in 1..Len(tasks) :
    tasks[i].pc = "done" /\ tasks[i].state = "Succeed" => tasks[i].merged

\* the sub-states that end a task's reporting, as the specification lists them
DoneSubStates == {"AllDone", "PackageManagerDone"}

C13_CanceledOnlyByReply ==
  \A i \in 1..Len(tasks) :
    tasks[i].state = "Canceled" => tasks[i].ask /\ tasks[i].answer \notin {"none", "yes"}

\* C13 witness: a remote upgrade was refused at its prompt and is Canceled
C13_Witness ==
  \E i \in 1..Len(tasks) :
    /\ tasks[i].kind = "install"
    /\ tasks[i].ask
    /\ tasks[i].answer = "no"
    /\ tasks[i].state = "Canceled"
    /\ tasks[i].pc = "done"

\* C14 (as stated): a reply addressed to one task path leaves every other task as it
\* is; in particular it neither unblocks nor cancels a task parked on its own prompt.
C14_ReplyReachesAddresseeOnly ==
  [][\A p \in 1..Len(tasks), action \in {"yes", "no"} :
       ReplyInteraction(p, action)
         => \A i \in 1..Len(tasks) : i # p => tasks'[i] = tasks[i]]_vars

\* the steps that are client calls: only they change the reply, the number of
\* TaskAdded signals and the number of registered tasks
CallReturned == reply' # reply \/ taskAdded' # taskAdded \/ Len(tasks') # Len(tasks)

\* C15: when a call of Install, InstallFromFile, Uninstall or Update returns a
\* non-zero code, the registry, the number of TaskAdded signals and the store are as
\* before the call; when it returns code 0, one task was appended to the registry,
\* one TaskAdded was emitted, the reply names that task and its state is Queued.
C15_CallRegistersOrRefuses ==
  [][CallReturned
       => /\ reply'.op \in {"Install", "InstallFromFile", "Uninstall", "Update"}
          /\ IF reply'.code # 0
             THEN /\ tasks' = tasks
                  /\ taskAdded' = taskAdded
                  /\ External(repo') = External(repo)
             ELSE /\ Len(tasks') = Len(tasks) + 1
                  /\ SubSeq(tasks', 1, Len(tasks)) = tasks
                  /\ taskAdded' = taskAdded + 1
                  /\ reply'.task = Len(tasks')
                  /\ tasks'[Len(tasks')].state = "Queued"
                  /\ External(repo') = External(repo)]_vars

\* C15 witness: an Update call has returned code 0 for the one task it registered
C15_Witness ==
  /\ reply = [op |-> "Update", code |-> 0, type |-> "display", task |-> 1]
  /\ Len(tasks) = 1
  /\ taskAdded = 1
  /\ tasks[1].kind = "update"
  /\ tasks[1].state = "Queued"

\* the outcomes of an Install call
InstallRefused == reply'.op = "Install" /\ reply'.code # 0 /\ tasks' = tasks

InstallCreated(newRef, oldRef, ask) ==
  /\ reply'.op = "Install"
  /\ reply'.code = 0
  /\ Len(tasks') = Len(tasks) + 1
  /\ tasks'[Len(tasks')].kind = "install"
  /\ tasks'[Len(tasks')].new = newRef
  /\ tasks'[Len(tasks')].old = oldRef
  /\ tasks'[Len(tasks')].ask = ask

\* what the claim expects of a binary Install against the local reference; the
\* classification Upgrade shows as the prompt the task will emit
ClassifiedAgainst(remoteRef, localRef, force, skipInteraction, registered) ==
  IF remoteRef.ver = localRef.ver THEN InstallRefused
  ELSE IF remoteRef.ver > localRef.ver
       THEN registered => InstallCreated(remoteRef, localRef, ~skipInteraction)
       ELSE IF ~force THEN InstallRefused
            ELSE registered => InstallCreated(remoteRef, localRef, FALSE)

\* C16 (as stated): a binary Install, while a local reference of the package exists,
\* is refused when the remote version equals the local one, creates an Upgrade task
\* when it is greater, and when it is smaller is refused without force and creates a
\* task with force.
C16_InstallClassified ==
  [][clearReferenceLocal(repo, "app", 0) # NoRef
       => \A v \in 0..MaxVer, force, skipInteraction, registered \in BOOLEAN :
            Install(v, "binary", force, skipInteraction, registered)
              => ClassifiedAgainst(clearReferenceRemote("app", v),
                                   clearReferenceLocal(repo, "app", 0),
                                   force, skipInteraction, registered)]_vars

\* C16 (amended): the same, for a call whose requested version, when it names one,
\* is not itself installed.
C16_InstallClassifiedUnlessInstalled ==
  [][clearReferenceLocal(repo, "app", 0) # NoRef
       => \A v \in {u \in 0..MaxVer : u = 0 \/ clearReferenceLocal(repo, "app", u) = NoRef},
             force, skipInteraction, registered \in BOOLEAN :
            Install(v, "binary", force, skipInteraction, registered)
              => ClassifiedAgainst(clearReferenceRemote("app", v),
                                   clearReferenceLocal(repo, "app", 0),
                                   force, skipInteraction, registered)]_vars

\* C16 witness: a forced downgrade has registered its task
C16_Witness ==
  \E i \in 1..Len(tasks) :
    /\ tasks[i].kind = "install"
    /\ tasks[i].old # NoRef
    /\ tasks[i].new.ver < tasks[i].old.ver
    /\ ~tasks[i].ask
    /\ reply = [op |-> "Install", code |-> 0, type |-> "display", task |-> i]

\* the application references that have a LayerItem in R but lack their runtime or base
Orphans(R) ==
  {r \in AppRefs : /\ \E m \in Modules : R.layers[r][m] # "absent"
                   /\ \/ ~getLayerItem(R, PackageInfo(r).runtime)
                      \/ ~getLayerItem(R, PackageInfo(r).base)}

\* C17 (as stated, for Install, InstallFromFile and Uninstall): when a task ends
\* Succeed, every application LayerItem of the store has its runtime and its base in
\* the store.
C17_SucceedKeepsDependencies ==
  [][\A i \in 1..Len(tasks) :
       (/\ tasks[i].pc = "plan"
        /\ tasks'[i].pc = "done"
        /\ tasks'[i].state = "Succeed") => Orphans(repo') = {}]_vars

\* C18 (as stated): no worker has unexported an old reference in removeAfterInstall
\* at a moment when the new reference was not exported.
C18_NewExportedBeforeOldHidden == \A i \in 1..Len(tasks) : ~tasks[i].gap

\* C19 (as stated): the worker of a fresh install of an application (no local
\* reference of the package when the call was made) has not called export_reference
\* for a reference that had no generated cache.
C19_CacheBeforeExport ==
  \A i \in 1..Len(tasks) :
    (/\ tasks[i].kind \in {"install", "layer", "uab"}
     /\ tasks[i].old = NoRef
     /\ PackageInfo(tasks[i].new).kind = "app") => ~tasks[i].exportedUncached

\* C20 (as stated, its first half): when an upgrade whose old reference has a running
\* container has run and installed the new reference, the modules of the old
\* reference are marked deleted, none is removed, and the new reference is exported.
C20_BusyUpgradeDefersAndExports ==
  [][\A i \in 1..Len(tasks) :
       (/\ tasks[i].pc = "plan"
        /\ tasks'[i].pc = "done"
        /\ tasks[i].kind \in {"install", "layer", "uab", "update"}
        /\ tasks[i].old \in running
        /\ tasks'[i].state \in {"Succeed", "PartCompleted"}
        /\ getLayerItem(repo', tasks[i].new))
         => /\ \A m \in Modules :
                 repo.layers[tasks[i].old][m] # "absent"
                   => repo'.layers[tasks[i].old][m] = "deleted"
            /\ tasks[i].new \in repo'.exported]_vars

\* C21 (as stated): a task whose worker has returned is in a terminal state
\* (Succeed, Failed or Canceled), never in Queued, Processing or PartCompleted.
C21_ReturnedTaskIsTerminal ==
  \A i \in 1..Len(tasks) : tasks[i].pc = "done" => tasks[i].state \in TerminalStates


\* C22 (as stated): no Prune job has performed a removal while the repository lock
\* was not held, so that its removals cannot interleave with the store operations of
\* a mutation task or of a deferred-uninstall tick.
C22_PruneHoldsLock == ~prune.unguarded

\* C28 (as stated): a Prune job removes a reference only if it is not app-kind and no
\* installed application (binary module) declares it as its runtime or base; every
\* app-kind reference and every declared runtime or base is still present after the
\* job, also when another dependency of that application did not resolve.
C28_PruneSparesDependencies ==
  [][prune'.queued < prune.queued
       => \A r \in Refs :
            (\/ PackageInfo(r).kind = "app"
             \/ \E app \in listLocal(repo) :
                  PackageInfo(app).kind = "app"
                    /\ r \in {PackageInfo(app).runtime, PackageInfo(app).base})
              => repo'.layers[r] = repo.layers[r]]_vars


\* C23 (as stated): the deleted flag of a LayerItem (r, m) goes from unset to set
\* only in the plan of an upgrade whose old reference r has a running container, and
\* from set to unset only in the plan of an install of r that succeeds (an Update that
\* ends PartCompleted is taken for a success).
C23_DeletedFlagChanges ==
  [][\A r \in Refs, m \in Modules :
       /\ (repo.layers[r][m] = "present" /\ repo'.layers[r][m] = "deleted")
            => \E i \in 1..Len(tasks) :
                 /\ tasks[i].pc = "plan" /\ tasks'[i].pc = "done"
                 /\ tasks[i].kind \in {"install", "layer", "uab", "update"}
                 /\ tasks[i].old = r
                 /\ r \in running
       /\ (repo.layers[r][m] = "deleted" /\ repo'.layers[r][m] = "present")
            => \E i \in 1..Len(tasks) :
                 /\ tasks[i].pc = "plan" /\ tasks'[i].pc = "done"
                 /\ tasks[i].kind \in {"install", "module", "layer", "uab", "update"}
                 /\ tasks[i].new = r
                 /\ tasks'[i].state \in {"Succeed", "PartCompleted"}]_vars


\* C27 (as stated): when the worker of an Update task returns and the task has not
\* failed, every (old, new) pair of the task has been attempted: the new reference of
\* every pair is installed, also when the old reference of an earlier pair was busy.
C27_UpdateAttemptsEveryPair ==
  [][\A i \in 1..Len(tasks) :
       (/\ tasks[i].kind = "update"
        /\ tasks[i].pc = "plan"
        /\ tasks'[i].pc = "done"
        /\ tasks'[i].state # "Failed")
         => \A k \in 1..Len(tasks[i].pairs) : getLayerItem(repo', tasks[i].pairs[k].new)]_vars


\* C24 (as stated): the worker of an Uninstall task removes no LayerItem of a
\* reference that has a running container when the worker runs, whenever that
\* container was started.
C24_UninstallSparesRunning ==
  [][\A i \in 1..Len(tasks) :
       (/\ tasks[i].kind = "uninstall"
        /\ tasks[i].pc = "plan"
        /\ tasks'[i].pc = "done"
        /\ tasks[i].new \in running)
         => \A m \in Modules :
              repo.layers[tasks[i].new][m] # "absent"
                => repo'.layers[tasks[i].new][m] # "absent"]_vars


\* C26: the closure of a task emits RequestInteraction (and parks) when it is entered
\* if and only if the request was classified Upgrade and skip_interaction was false;
\* it does so at most once; a fresh install and a downgrade never do; and a parked
\* task is still Queued and its worker has issued no store operation.
C26_PromptOnlyForUpgrade ==
  /\ [](\A i \in 1..Len(tasks) :
          /\ tasks[i].ask
               => /\ tasks[i].kind \in {"install", "layer", "uab"}
                  /\ tasks[i].old # NoRef
                  /\ tasks[i].new.ver > tasks[i].old.ver
          /\ tasks[i].pc = "parked"
               => /\ tasks[i].ask
                  /\ tasks[i].state = "Queued"
                  /\ tasks[i].answer = "none"
                  /\ ~tasks[i].touched)
  /\ [][\A i \in 1..Len(tasks) :
          /\ (tasks[i].pc = "queued" /\ tasks'[i].pc # "queued")
               => (tasks'[i].pc = "parked" <=> tasks[i].ask)
          /\ (tasks[i].pc # "parked" /\ tasks'[i].pc = "parked") => tasks[i].pc = "queued"
          /\ (tasks[i].pc = "parked" /\ tasks'[i].pc # "parked")
               => /\ tasks'[i].answer # "none"
                  /\ repo' = repo]_vars

\* C26 witness: an upgrade asked, was answered yes, and then ran its plan to Succeed
C26_Witness ==
  \E i \in 1..Len(tasks) :
    /\ tasks[i].ask
    /\ tasks[i].answer = "yes"
    /\ tasks[i].pc = "done"
    /\ tasks[i].state = "Succeed"
    /\ tasks[i].touched


\* the lists of modules removeAfterInstall is handed for an old reference: all its
\* modules (Install, Update, archive install) or one of them (layer install)
ModuleListsOf(R, oldRef) ==
  {getModuleList(R, oldRef)} \cup {<<m>> : m \in SeqToSet(getModuleList(R, oldRef))}

\* removeAfterInstall from the present store, with the removal of modules[j] failing
FailedRemoval(oldRef, newRef, modules, j) ==
  removeAfterInstall(Ctx(repo, TemporaryTask, lock), oldRef, newRef, modules,
                     Fault("removeOld", modules[j]), running)

\* C29: removeAfterInstall for an old reference without a running container, when the
\* removal of one of its modules fails, returns an error; the modules of old that
\* the call removed before are in the store again, old is exported, and the call
\* has not exported new.
C29_FailedRemovalRestoresOld ==
  \A oldRef \in AppRefs \ running, newRef \in AppRefs :
    oldRef # newRef
      => \A modules \in ModuleListsOf(repo, oldRef) :
           \A j \in 1..Len(modules) :
             LET rm == FailedRemoval(oldRef, newRef, modules, j)
             IN /\ ~rm.ok
                /\ \A k \in 1..(j - 1) : rm.c.repo.layers[oldRef][modules[k]] = "present"
                /\ \A m \in Modules :
                     repo.layers[oldRef][m] # "absent"
                       => rm.c.repo.layers[oldRef][m] # "absent"
                /\ oldRef \in rm.c.repo.exported
                /\ rm.c.repo.net[newRef] = repo.net[newRef]
                /\ (newRef \in rm.c.repo.exported <=> newRef \in repo.exported)

\* C29 witness: an upgrade is about to run whose old reference has two modules and no
\* running container; with the removal of the second failing, the first is removed
\* and pulled again
C29_Witness ==
  \E i \in 1..Len(tasks) :
    /\ tasks[i].pc = "plan"
    /\ tasks[i].kind \in {"install", "uab", "update"}
    /\ tasks[i].old \in AppRefs \ running
    /\ getModuleList(repo, tasks[i].old) = <<"binary", "develop">>
    /\ LET rm == FailedRemoval(tasks[i].old, tasks[i].new, <<"binary", "develop">>, 2)
       IN /\ ~rm.ok
          /\ rm.c.touched
          /\ rm.c.repo.layers[tasks[i].old]["binary"] = "present"


\* the modules the plan of task t hands to InstallRef
PlannedModules(t) ==
  getRemoteModuleList(t.new, IF t.kind = "module" \/ t.old = NoRef THEN <<t.module>>
                             ELSE getModuleList(repo, t.old))

\* C30 (as stated): InstallRef, as the plan of a task that is about to run calls it,
\* pulls no module that has a deleted LayerItem of an equal or equivalent module (the
\* flag is cleared instead), and when it fails it leaves the LayerItems of the
\* reference as they were: cleared flags set back, pulled modules removed.
C30_InstallRefRevivesOrUndoes ==
  \A i \in 1..Len(tasks) :
    (tasks[i].pc = "plan" /\ tasks[i].kind \in {"install", "module", "update"})
      => \A fault \in FaultsOf(tasks[i].kind) :
           LET c0 == TaskCtx(tasks[i])
               ref == tasks[i].new
               rv == ReviveLoop(c0, ref, listLocalDeleted(repo, ref), 1,
                                PlannedModules(tasks[i]), <<>>, fault)
               c == InstallRef(c0, ref, PlannedModules(tasks[i]), fault)
           IN /\ \A k \in 1..Len(rv.mods), m \in Modules :
                   repo.layers[ref][m] = "deleted" => ~Equivalent(rv.mods[k], m)
              /\ c.task.state = "Failed" => c.repo.layers[ref] = repo.layers[ref]

C31_DependencyPullRollsBack ==
  \A r \in AppRefs, fault \in DependencyFaults \cup {NoFault} :
    LET info == PackageInfo(r)
        runtime == clearReferenceFallback(repo, info.runtime.id, info.runtime.ver)
        base == clearReferenceFallback(repo, info.base.id, info.base.ver)
        hadRuntime == getLayerDir(repo, runtime, "binary")
        hadBase == getLayerDir(repo, base, "binary")
        c == pullDependency(Ctx(repo, TemporaryTask, lock), r, "binary", fault)
        baseFails == fault.op = "resolveBase" \/ (fault.op = "pullBase" /\ ~hadBase)
    IN /\ hadRuntime => c.repo.layers[runtime] = repo.layers[runtime]
       /\ hadBase => c.repo.layers[base] = repo.layers[base]
       /\ (hadRuntime /\ hadBase /\ fault.op \notin {"resolveRuntime", "resolveBase"})
            => ~c.touched /\ c.task.state # "Failed"
       /\ (~hadRuntime /\ baseFails)
            => /\ c.touched
               /\ c.task.state = "Failed"
               /\ \A m \in Modules : c.repo.layers[runtime][m] = "absent"

\* C31 witness: an install is about to run from a store without the runtime and the
\* base; with the pull of the base failing, the call pulls the runtime and ends Failed
C31_Witness ==
  \E i \in 1..Len(tasks) :
    /\ tasks[i].pc = "plan"
    /\ tasks[i].kind = "install"
    /\ ~getLayerDir(repo, RuntimeRef, "binary")
    /\ ~getLayerDir(repo, BaseRef, "binary")
    /\ LET c == pullDependency(TaskCtx(tasks[i]), tasks[i].new, "binary",
                               Fault("pullBase", "none"))
       IN c.touched /\ c.task.state = "Failed" /\ c.repo.layers = repo.layers

C33_FailedUninstallRestores ==
  [][\A i \in 1..Len(tasks), m \in Modules :
       (/\ tasks[i].kind = "uninstall"
        /\ Run(i, Fault("remove", m))
        /\ m \in SeqToSet(IF tasks[i].module = "binary" \/ tasks[i].module = "runtime"
                          THEN getModuleList(repo, tasks[i].new)
                          ELSE <<tasks[i].module>>))
         => LET ref == tasks[i].new
            IN /\ tasks'[i].state = "Failed"
               /\ getModuleList(repo', ref) = getModuleList(repo, ref)
               /\ (ref \in repo'.exported <=> ref \in repo.exported)]_vars

RECURSIVE NetUpTo(_, _)
NetUpTo(R, v) == IF v = 0 THEN 0 ELSE R.net[[id |-> "app", ver |-> v]] + NetUpTo(R, v - 1)

\* C35 (as stated): a deferred-uninstall tick that has removed the deleted modules of
\* its references leaves the newest remaining local reference of the id exported when
\* there is one, and calls export_reference for no reference when none is left (its
\* only calls are the unexport_reference of each reference it removes).
C35_TickExportsOnlyRemaining ==
  [][\A fault \in TickFaults, indeterminate \in AppRefs \cup {NoRef} :
       (/\ deferredUninstall(fault, indeterminate)
        /\ fault.op \notin {"lock", "inventory"}
        /\ Survivors(repo, running) # {})
         => IF clearReferenceLocal(repo', "app", 0) # NoRef
            THEN clearReferenceLocal(repo', "app", 0) \in repo'.exported
            ELSE NetUpTo(repo', MaxVer)
                   = NetUpTo(repo, MaxVer) - Cardinality(Survivors(repo, running))]_vars

\* C38 (as stated): the reply handler of a task is connected only while the task is
\* parked on its prompt: once the wait of a task has ended, no handler of that task
\* is left for a later ReplyReceived to run.
C38_NoHandlerAfterWait == \A i \in handlers : tasks[i].pc = "parked"

\* C39 (as stated): once the closure of a task has set Succeed it performs no further
\* store operation. For a layer-file install that is about to run: the store when the
\* closure returns is the store at the moment it set Succeed, and no call it made
\* after that moment has failed.
C39_SucceedIsLastStep ==
  \A i \in 1..Len(tasks) :
    (tasks[i].pc = "plan" /\ tasks[i].kind = "layer")
      => \A fault \in FaultsOf("layer") :
           LET t == tasks[i]
               c1 == pullDependency(TaskCtx(t), t.new, t.module, fault)
               c2 == importLayerDir(c1, t.new, t.module, fault.op = "import")
               c3 == updateState(c2, "Succeed")
               c4 == LayerSucceed(c3, t.new, t.old, t.module, fault, running)
           IN (/\ fault.op # "unpack"
               /\ ~isTaskDone(c1.task.subState)
               /\ ~isTaskDone(c2.task.subState))
                => /\ c3.task.state = "Succeed"
                   /\ c4.repo = c3.repo
                   /\ c4 = Plan(t, fault)

\* C40 (as stated): for every non-empty list of candidates, getLatestApp returns an
\* entry of the host architecture whose version is at least the version of every
\* entry of the host architecture in the list. Checked for the lists Install goes on
\* with: those whose entry returned by getLatestApp has no install record.
C40_LatestIsNewestOfHostArch ==
  \A n \in 1..2 :
    \A appList \in [1..n -> [appId : {"app"}, version : 1..MaxImplVer,
                             arch : {hostArch, "arm64"}]] :
      LET latestApp == getLatestApp(appList)
      IN ~getAppInstalledStatus(impl, latestApp.appId, latestApp.version)
           => /\ latestApp.arch = hostArch
              /\ \A k \in 1..n : appList[k].arch = hostArch
                                    => appList[k].version <= latestApp.version

\* C36 (as stated): the inventory is the set of the states of the state files whose
\* pid has a /proc entry, the files of dead processes being ignored; and when the
\* state root directory is not present the inventory is empty and no error. The
\* live files are those of the running containers, the dead ones any others.
C36_InventoryOfLiveFiles ==
  \A root \in {"present", "absent"}, dead \in SUBSET AppRefs :
    LET files == {[pid |-> r.ver, state |-> r] : r \in running}
                   \cup {[pid |-> MaxVer + r.ver, state |-> r] : r \in dead}
        inventory == getAllRunningContainers(root, files, {r.ver : r \in running})
    IN /\ inventory.ok
       /\ inventory.result = IF root = "present" THEN running ELSE {}

\* C37 (as stated): a deferred-uninstall tick that unexports and removes does not run
\* while the worker of a mutation task is suspended inside a pull or an import of its
\* plan.
C37_TickExcludesSuspendedTask ==
  [][(/\ \E fault \in TickFaults, indeterminate \in AppRefs \cup {NoRef} :
          deferredUninstall(fault, indeterminate)
      /\ repo' # repo)
       => \A i \in 1..Len(tasks) : tasks[i].pc # "suspended"]_vars

=============================================================================
